---- MODULE Spec2Model ----
(***************************************************************************)
(* A model of masonry-rs: the external event mailbox (src/ext_event.rs),   *)
(* shared between the dispatch thread and sink threads, and the test       *)
(* harness (src/testing/harness.rs) that drives the widget passes.         *)
(***************************************************************************)
EXTENDS Integers, Sequences, FiniteSets, TLC

\* ------------------------------------------------------------------------
\* Bounds of the model
\* ------------------------------------------------------------------------

\* Calls to submit_command / resolve_promise the sink threads make in all.
MaxSubmit == 3

\* Commands the harness command queue holds at most.
MaxQueue == 2

\* Actions the widgets emit in all (the length of the action history).
MaxActions == 2

\* Characters of the longest string given to keyboard_type_chars.
MaxText == 2

\* Timers that one move_timers_forward call finds due at most.
MaxTimers == 1

\* Threads that own a sink (a clone moved into the thread).
SinkThreads == {"t1", "t2"}

\* The dispatch thread, owner of the ExtEventQueue.
Dispatcher == "D"

\* Nobody holds the mutex.
Free == "free"

\* Window ids, and the idle handle each window gives to set_idle.
WindowIds == {"w1", "w2"}
IdleHandles == {[handle |-> "h1", window_id |-> "w1"], [handle |-> "h2", window_id |-> "w2"]}

\* Widget ids a promise result can be addressed to.
WidgetIds == {"a", "b"}

\* Command targets (Target::Auto, Target::Window).
Targets == {"Auto"}

\* The idle token of the platform layer that announces external events.
EXT_EVENT_IDLE_TOKEN == "EXT_EVENT_IDLE_TOKEN"

\* The Arc cells: cell "own" is the one ExtEventQueue::default() allocates;
\* the others exist only for a sink that would allocate its own.
OwnerCell == "own"
Cells == {OwnerCell} \cup SinkThreads

\* ------------------------------------------------------------------------
\* State of the mailbox
\* ------------------------------------------------------------------------
VARIABLES
    queueMx,          \* cell -> Mutex<VecDeque<ExtMessage>>: [val, owner, poisoned]
    handleMx,         \* cell -> Mutex<Option<IdleHandle>>:   [val, owner, poisoned]
    handle_window_id, \* ExtEventQueue.handle_window_id: << >> or <<w>>
    sink,             \* thread -> << >> or <<[queue |-> cell, handle |-> cell]>>
    pc,               \* thread -> position inside submit_command / resolve_promise
    cur,              \* thread -> arguments of the call in progress
    calls,            \* thread -> calls begun
    result,           \* thread -> "none" | "Ok" | "Err" | "panic" of the last call
    woken,            \* thread -> the woken [handle, token] issued by the call in progress
    seen,             \* thread -> the Option<IdleHandle> the call found under the lock
    installedAtCheck, \* thread -> the owner's handle when the call looked
    poisonedAtCall,   \* thread -> was a lock of the sink poisoned when it acquired it
    dpc,              \* position of the dispatch thread
    darg,             \* arguments of the last set_idle call: << >> or <<[handle, window_id]>>
    dret,             \* what the dispatch thread's last call returned: [op, val]
    enq,              \* history: every message pushed, in push order
    received,         \* history: every message recv returned, in order
    submitted         \* history: thread -> arguments of its calls that returned Ok

\* The sink threads' own state, the dispatch thread's, and the histories.
tvars == <<pc, cur, calls, result, woken, seen, installedAtCheck, poisonedAtCall>>
dvars == <<dpc, darg, dret, handle_window_id>>
hist == <<enq, received, submitted>>

mvars == <<queueMx, handleMx, sink, tvars, dvars, hist>>

\* ------------------------------------------------------------------------
\* State of the harness
\* ------------------------------------------------------------------------
VARIABLES
    command_queue,    \* MockAppRoot.command_queue: sequence of [id, origin]
    action_queue,     \* MockAppRoot.action_queue: sequence of [action, widget_id, window_id]
    needs_layout,     \* root_widget().state().needs_layout
    invalid,          \* window.invalid: "EMPTY" | "PART" | "WINDOW"
    mouse_state,      \* Harness.mouse_state: [pos, buttons, button, wheel_delta]
    child_needs_layout, \* needs_layout of a descendant of the root
    inspected,        \* widgets inspect_widgets has applied the closure to, in order
    children_changed, \* widget -> state().children_changed of the tree under test
    piet,             \* render_to: the RenderContextGuard local [ctx, finish_calls, log, unwinding]
    script,           \* helper calls left to make in mouse_click_on
    pressed,          \* button widgets that received MouseDown and no MouseUp yet
    clicks,           \* ids mouse_click_on was called with, in order
    flagged,          \* history: a pass asked for layout or paint since the last layout decision
    hpc,              \* position of the harness inside the call in progress
    call,             \* the entry point in progress, or the last one that returned
    todo,             \* events the call still has to pass to process_event
    chars,            \* characters keyboard_type_chars still has to type
    lastEvent,        \* the event last delivered to the tree: [kind, arg, cmd]
    nextCmd,          \* identity of the next command a pass submits
    lastPop,          \* result of the last pop_action: << >> or <<[action, widget_id]>>
    emitted,          \* history: every action a pass emitted, in order
    popped            \* history: every action pop_action returned, in order

hvars == <<flagged,
           clicks,
           pressed,
           script,
           piet,
           children_changed,
           inspected,
           child_needs_layout,
           command_queue, action_queue, needs_layout, invalid, mouse_state, hpc, call,
           todo, chars, lastEvent, nextCmd, lastPop, emitted, popped>>

\* ------------------------------------------------------------------------
\* State of the widgets (web_image.rs, spinner.rs)
\* ------------------------------------------------------------------------
VARIABLES
    web,              \* WebImage -> [inner, image_promise]
    jobs,             \* background computations scheduled and not run yet: [token, url]
    results,          \* promise results computed and not delivered yet: [token, value]
    nextToken,        \* the token the next compute_in_background returns
    processed,        \* history: WebImages that were delivered a result they waited on
    spinner,          \* Spinner: [t, color]
    trace,            \* widget -> the context calls of its method in the last call or pass
    wcall,            \* the last widget method called: [widget, method, arg]
    ret               \* the Size the last layout call returned

wvars == <<web, jobs, results, nextToken, processed, spinner, trace, wcall, ret>>

\* ------------------------------------------------------------------------
\* State of the edit_spinner test (spinner.rs, mod tests) and of the
\* delegate context (app_delegate.rs), and of the platform's idle callback
\* ------------------------------------------------------------------------
VARIABLES
    param,            \* edit_spinner: << >> or <<[color, window_size]>> the test runs with
    hs,               \* edit_spinner: harness -> [stage, spinner, needs_layout, invalid,
                      \*                           early, image]
    main_root_widget, \* DelegateCtx.main_root_widget: the concrete type of the root
    delegate,         \* the delegate callback in progress: [callback, method, W, result]
    idle_scheduled,   \* the platform has an idle callback with the idle token to run
    draining          \* the dispatch thread is inside that callback, receiving

evars == <<param, hs>>
gvars == <<main_root_widget, delegate>>
pvars == <<idle_scheduled, draining>>
xvars == <<evars, gvars, pvars>>

vars == <<mvars, hvars, wvars, xvars>>

\* Option<T> as a sequence of length at most one.
None == << >>
Some(x) == <<x>>

\* ExtMessage::Command(SelectorSymbol, Box<dyn Any + Send>, Target)
ExtCommand(symbol, payload, target) ==
    [kind |-> "Command", symbol |-> symbol, payload |-> payload, target |-> target]

\* ExtMessage::Promise(PromiseResult, WidgetId, WindowId)
ExtPromise(res, widget, window) ==
    [kind |-> "Promise", result |-> res, widget |-> widget, window |-> window]

\* The widget whose background work thread t runs: the target of the promise
\* results that t resolves.
WidgetOf(t) == IF t = "t1" THEN "a" ELSE "b"

\* The arguments a sink thread can pass: the payload / result of call k of
\* thread t is the value <<t, k>>, distinct for every call.
CallArgs(t, k) ==
    {[op |-> "submit_command", selector |-> "sel", payload |-> <<t, k>>, target |-> g] :
        g \in Targets}
    \cup
    {[op |-> "resolve_promise", result |-> <<t, k>>, target_widget |-> WidgetOf(t),
      target_window |-> "w1"]}

\* The message a call builds from its arguments.
MessageOf(a) ==
    IF a.op = "submit_command"
    THEN ExtCommand(a.selector, a.payload, a.target)
    ELSE ExtPromise(a.result, a.target_widget, a.target_window)

\* A fresh Mutex::new(v).
NewMutex(v) == [val |-> v, owner |-> Free, poisoned |-> FALSE]

\* A sink built around cells of its own instead of clones of the owner's Arcs.
make_sink_unshared(t) == [queue |-> t, handle |-> t]

\* ExtEventQueue::make_sink: both Arcs are cloned, so the sink points at the
\* owner's cells.
make_sink(t) == [queue |-> OwnerCell, handle |-> OwnerCell]

MInit ==
    /\ queueMx = [c \in Cells |-> NewMutex(<< >>)]
    /\ handleMx = [c \in Cells |-> NewMutex(None)]
    /\ handle_window_id = None
    /\ sink = [t \in SinkThreads |-> None]
    /\ pc = [t \in SinkThreads |-> "ready"]
    /\ cur = [t \in SinkThreads |-> None]
    /\ calls = [t \in SinkThreads |-> 0]
    /\ result = [t \in SinkThreads |-> "none"]
    /\ woken = [t \in SinkThreads |-> << >>]
    /\ seen = [t \in SinkThreads |-> None]
    /\ installedAtCheck = [t \in SinkThreads |-> None]
    /\ poisonedAtCall = [t \in SinkThreads |-> "none"]
    /\ dpc = "idle"
    /\ darg = None
    /\ dret = [op |-> "none", val |-> None]
    /\ enq = << >>
    /\ received = << >>
    /\ submitted = [t \in SinkThreads |-> << >>]

\* Calls begun so far, over all sink threads.
RECURSIVE SumCalls(_)
SumCalls(S) ==
    IF S = {} THEN 0
    ELSE LET t == CHOOSE x \in S : TRUE IN calls[t] + SumCalls(S \ {t})

TotalCalls == SumCalls(SinkThreads)

\* A push at the wrong end of the deque.
push_front(q, m) == <<m>> \o q

\* VecDeque::push_back
push_back(q, m) == Append(q, m)

\* A pop at the wrong end of the deque.
pop_back(q) ==
    IF q = << >> THEN [item |-> None, rest |-> q]
    ELSE [item |-> Some(q[Len(q)]), rest |-> SubSeq(q, 1, Len(q) - 1)]

\* VecDeque::pop_front: the removed front item (None when empty) and the rest.
pop_front(q) ==
    IF q = << >> THEN [item |-> None, rest |-> q]
    ELSE [item |-> Some(Head(q)), rest |-> Tail(q)]

\* Option::replace: the new content of the option.
replace(old, h) == Some(h)

\* A submission that never wakes the dispatch thread.
NoScheduleIdle(opt) == 0

\* `if let Some(handle) = ... { handle.schedule_idle(TOKEN) }`: the number of
\* schedule_idle calls one submission issues for the option it found.
ScheduleIdleCalls(opt) == IF opt = None THEN 0 ELSE 1

\* ------------------------------------------------------------------------
\* The dispatch thread: ExtEventQueue
\* ------------------------------------------------------------------------

\* ExtEventQueue::make_sink, called by the window that owns the queue.
MakeSink(t) ==
    /\ dpc = "idle"
    /\ sink[t] = None
    /\ sink' = [sink EXCEPT ![t] = Some(make_sink(t))]
    /\ UNCHANGED <<hvars, wvars, xvars, queueMx, handleMx, tvars, dvars, hist>>

\* DelegateCtx::get_external_handle: make_sink on the borrowed queue.
GetExternalHandle(t) ==
    /\ dpc = "idle"
    /\ sink[t] = None
    /\ sink' = [sink EXCEPT ![t] = Some(make_sink(t))]
    /\ UNCHANGED <<hvars, wvars, xvars, queueMx, handleMx, tvars, dvars, hist>>

\* #[derive(Clone)] on ExtEventSink: the clone holds the same two Arcs.
CloneSink(s, t) ==
    /\ sink[s] # None
    /\ sink[t] = None
    /\ sink' = [sink EXCEPT ![t] = sink[s]]
    /\ UNCHANGED <<hvars, wvars, xvars, queueMx, handleMx, tvars, dvars, hist>>

\* set_idle, line 65: self.handle.lock().unwrap() -- panics on a poisoned lock.
SetIdleLock(h, w) ==
    /\ dpc = "idle"
    /\ handleMx[OwnerCell].owner = Free
    /\ IF handleMx[OwnerCell].poisoned
       THEN /\ dpc' = "panicked"
            /\ UNCHANGED <<handleMx, darg>>
       ELSE /\ dpc' = "set_idle"
            /\ darg' = Some([handle |-> h, window_id |-> w])
            /\ handleMx' = [handleMx EXCEPT ![OwnerCell].owner = Dispatcher]
    /\ UNCHANGED <<hvars, wvars, xvars, queueMx, sink, tvars, dret, handle_window_id,
                   hist>>

\* set_idle, lines 65-66: .replace(handle), the guard is dropped, then
\* handle_window_id = Some(window_id).
SetIdleDone ==
    /\ dpc = "set_idle"
    /\ handleMx' = [handleMx EXCEPT
            ![OwnerCell].val = replace(handleMx[OwnerCell].val, darg[1].handle),
            ![OwnerCell].owner = Free]
    /\ handle_window_id' = Some(darg[1].window_id)
    /\ dpc' = "idle"
    /\ UNCHANGED <<hvars, wvars, xvars, queueMx, sink, tvars, darg, dret, hist>>

\* recv, line 74: self.queue.lock().unwrap() -- panics on a poisoned lock.
RecvLock ==
    /\ dpc = "idle"
    /\ queueMx[OwnerCell].owner = Free
    /\ IF queueMx[OwnerCell].poisoned
       THEN /\ dpc' = "panicked"
            /\ UNCHANGED queueMx
       ELSE /\ dpc' = "recv"
            /\ queueMx' = [queueMx EXCEPT ![OwnerCell].owner = Dispatcher]
    /\ UNCHANGED <<hvars, wvars, xvars, handleMx, sink, tvars, darg, dret,
                   handle_window_id, hist>>

\* recv, line 74: .pop_front(), the guard is dropped.
RecvDone ==
    /\ dpc = "recv"
    /\ LET r == pop_front(queueMx[OwnerCell].val) IN
        /\ queueMx' = [queueMx EXCEPT ![OwnerCell].val = r.rest,
                                      ![OwnerCell].owner = Free]
        /\ dret' = [op |-> "recv", val |-> r.item]
        /\ received' = received \o r.item
    /\ dpc' = "idle"
    /\ UNCHANGED <<hvars, wvars, xvars, handleMx, sink, tvars, darg, handle_window_id, enq,
                   submitted>>

\* has_pending_items, line 70: self.queue.lock().unwrap().
HasPendingLock ==
    /\ dpc = "idle"
    /\ queueMx[OwnerCell].owner = Free
    /\ IF queueMx[OwnerCell].poisoned
       THEN /\ dpc' = "panicked"
            /\ UNCHANGED queueMx
       ELSE /\ dpc' = "has_pending_items"
            /\ queueMx' = [queueMx EXCEPT ![OwnerCell].owner = Dispatcher]
    /\ UNCHANGED <<hvars, wvars, xvars, handleMx, sink, tvars, darg, dret,
                   handle_window_id, hist>>

\* has_pending_items, line 70: !is_empty(), the guard is dropped.
HasPendingDone ==
    /\ dpc = "has_pending_items"
    /\ dret' = [op |-> "has_pending_items", val |-> queueMx[OwnerCell].val # << >>]
    /\ queueMx' = [queueMx EXCEPT ![OwnerCell].owner = Free]
    /\ dpc' = "idle"
    /\ UNCHANGED <<hvars, wvars, xvars, handleMx, sink, tvars, darg, handle_window_id,
                   hist>>

\* ------------------------------------------------------------------------
\* A sink thread: ExtEventSink::submit_command / resolve_promise
\* ------------------------------------------------------------------------

\* The thread calls submit_command or resolve_promise on its sink.
Begin(t) ==
    /\ pc[t] = "ready"
    /\ sink[t] # None
    /\ TotalCalls < MaxSubmit
    /\ \E a \in CallArgs(t, calls[t] + 1) : cur' = [cur EXCEPT ![t] = Some(a)]
    /\ calls' = [calls EXCEPT ![t] = @ + 1]
    /\ pc' = [pc EXCEPT ![t] = "handle"]
    /\ result' = [result EXCEPT ![t] = "none"]
    /\ woken' = [woken EXCEPT ![t] = << >>]
    /\ seen' = [seen EXCEPT ![t] = None]
    /\ installedAtCheck' = [installedAtCheck EXCEPT ![t] = None]
    /\ poisonedAtCall' = [poisonedAtCall EXCEPT ![t] = "none"]
    /\ UNCHANGED <<hvars, wvars, xvars, queueMx, handleMx, sink, dvars, hist>>

\* Lines 98 / 115: self.handle.lock().unwrap() -- a poisoned lock panics the
\* caller; otherwise the guard lives for the whole `if let`.
LockHandle(t) ==
    /\ pc[t] = "handle"
    /\ LET c == sink[t][1].handle IN
        /\ handleMx[c].owner = Free
        /\ IF handleMx[c].poisoned
           THEN /\ pc' = [pc EXCEPT ![t] = "dead"]
                /\ result' = [result EXCEPT ![t] = "panic"]
                /\ poisonedAtCall' = [poisonedAtCall EXCEPT ![t] = "handle"]
                /\ UNCHANGED <<handleMx, seen, installedAtCheck>>
           ELSE /\ pc' = [pc EXCEPT ![t] = "wake"]
                /\ handleMx' = [handleMx EXCEPT ![c].owner = t]
                /\ seen' = [seen EXCEPT ![t] = handleMx[c].val]
                /\ installedAtCheck' =
                       [installedAtCheck EXCEPT ![t] = handleMx[OwnerCell].val]
                /\ UNCHANGED <<result, poisonedAtCall>>
    /\ UNCHANGED <<hvars, wvars, xvars, queueMx, sink, cur, calls, woken, dvars, hist>>

\* A guard that is still alive after the `if let`.
keep_guard(t) == t

\* The MutexGuard of self.handle.lock() is a temporary of the `if let`
\* (lines 98-100 / 115-117): it is dropped at the end of that statement,
\* which leaves the mutex to nobody.
drop_guard(t) == Free

\* Lines 98-100 / 115-117: schedule_idle(EXT_EVENT_IDLE_TOKEN) on the handle
\* found, if any; then the guard is dropped.
ScheduleIdle(t) ==
    /\ pc[t] = "wake"
    /\ LET c == sink[t][1].handle
           n == ScheduleIdleCalls(seen[t]) IN
        /\ woken' = [woken EXCEPT ![t] =
               [i \in 1..n |-> [handle |-> seen[t][1], token |-> EXT_EVENT_IDLE_TOKEN]]]
        /\ handleMx' = [handleMx EXCEPT ![c].owner = drop_guard(t)]
    /\ pc' = [pc EXCEPT ![t] = "queue"]
    /\ UNCHANGED <<hvars, wvars, evars, gvars, queueMx, sink, cur, calls, result, seen,
                   installedAtCheck, poisonedAtCall, dvars, hist>>

\* The wake of a submission, where the platform that gets it is not followed.
Wake(t) ==
    /\ ScheduleIdle(t)
    /\ UNCHANGED pvars

\* The wake of a submission, with the platform: schedule_idle leaves an
\* idle callback for the dispatch thread to run.
WakeDispatcher(t) ==
    /\ ScheduleIdle(t)
    /\ idle_scheduled' = (idle_scheduled \/ ScheduleIdleCalls(seen[t]) > 0)
    /\ UNCHANGED draining

\* schedule_idle is platform code; a panic inside it unwinds through the
\* guard, which poisons the handle mutex.
ScheduleIdlePanics(t) ==
    /\ pc[t] = "wake"
    /\ seen[t] # None
    /\ handleMx' = [handleMx EXCEPT ![sink[t][1].handle].owner = Free,
                                    ![sink[t][1].handle].poisoned = TRUE]
    /\ pc' = [pc EXCEPT ![t] = "dead"]
    /\ result' = [result EXCEPT ![t] = "panic"]
    /\ UNCHANGED <<hvars, wvars, xvars, queueMx, sink, cur, calls, woken, seen,
                   installedAtCheck, poisonedAtCall, dvars, hist>>

\* Lines 101-103 / 118-120: self.queue.lock().map_err(|_| ExtEventError)? --
\* a poisoned lock returns Err(ExtEventError) to the caller.
LockQueue(t) ==
    /\ pc[t] = "queue"
    /\ LET c == sink[t][1].queue IN
        /\ queueMx[c].owner = Free
        /\ IF queueMx[c].poisoned
           THEN /\ pc' = [pc EXCEPT ![t] = "ready"]
                /\ result' = [result EXCEPT ![t] = "Err"]
                /\ poisonedAtCall' = [poisonedAtCall EXCEPT ![t] = "queue"]
                /\ UNCHANGED queueMx
           ELSE /\ pc' = [pc EXCEPT ![t] = "push"]
                /\ queueMx' = [queueMx EXCEPT ![c].owner = t]
                /\ UNCHANGED <<result, poisonedAtCall>>
    /\ UNCHANGED <<hvars, wvars, xvars, handleMx, sink, cur, calls, woken, seen,
                   installedAtCheck, dvars, hist>>

\* Lines 104-105 / 121-122: .push_back(message), the guard is dropped, Ok(()).
Push(t) ==
    /\ pc[t] = "push"
    /\ LET c == sink[t][1].queue
           m == MessageOf(cur[t][1]) IN
        /\ queueMx' = [queueMx EXCEPT ![c].val = push_back(@, m),
                                      ![c].owner = Free]
        /\ enq' = Append(enq, m)
    /\ submitted' = [submitted EXCEPT ![t] = Append(@, cur[t][1])]
    /\ pc' = [pc EXCEPT ![t] = "ready"]
    /\ result' = [result EXCEPT ![t] = "Ok"]
    /\ UNCHANGED <<hvars, wvars, xvars, handleMx, sink, cur, calls, woken, seen,
                   installedAtCheck, poisonedAtCall, dvars, received>>

\* push_back panics when the deque cannot grow (capacity overflow); the
\* panic unwinds through the guard, which poisons the queue mutex.
PushPanics(t) ==
    /\ pc[t] = "push"
    /\ queueMx' = [queueMx EXCEPT ![sink[t][1].queue].owner = Free,
                                  ![sink[t][1].queue].poisoned = TRUE]
    /\ pc' = [pc EXCEPT ![t] = "dead"]
    /\ result' = [result EXCEPT ![t] = "panic"]
    /\ UNCHANGED <<hvars, wvars, xvars, handleMx, sink, cur, calls, woken, seen,
                   installedAtCheck, poisonedAtCall, dvars, hist>>

MNext ==
    \/ \E t \in SinkThreads : MakeSink(t)
    \/ \E t \in SinkThreads : GetExternalHandle(t)
    \/ \E s, t \in SinkThreads : CloneSink(s, t)
    \/ \E i \in IdleHandles : SetIdleLock(i.handle, i.window_id)
    \/ SetIdleDone
    \/ RecvLock
    \/ RecvDone
    \/ HasPendingLock
    \/ HasPendingDone
    \/ \E t \in SinkThreads : Begin(t)
    \/ \E t \in SinkThreads : LockHandle(t)
    \/ \E t \in SinkThreads : Wake(t)
    \/ \E t \in SinkThreads : ScheduleIdlePanics(t)
    \/ \E t \in SinkThreads : LockQueue(t)
    \/ \E t \in SinkThreads : Push(t)
    \/ \E t \in SinkThreads : PushPanics(t)

\* ------------------------------------------------------------------------
\* The dispatch thread woken by the platform
\* ------------------------------------------------------------------------

\* The window installs its wake handle before anything is submitted.
InstallHandle(h, w) ==
    /\ handleMx[OwnerCell].val = None
    /\ SetIdleLock(h, w)

\* A sink thread submits once a wake handle is installed.
BeginInstalled(t) ==
    /\ handleMx[OwnerCell].val # None
    /\ Begin(t)

\* The platform runs the idle callback of the idle token on the dispatch
\* thread, which starts to receive.
RunIdle ==
    /\ dpc = "idle"
    /\ idle_scheduled
    /\ ~draining
    /\ idle_scheduled' = FALSE
    /\ draining' = TRUE
    /\ dret' = [op |-> "none", val |-> None]
    /\ UNCHANGED <<hvars, wvars, evars, gvars, queueMx, handleMx, sink, tvars, dpc, darg,
                   handle_window_id, hist>>

\* Inside the callback: recv is called until it returns None.
DrainRecvLock ==
    /\ draining
    /\ ~(dret.op = "recv" /\ dret.val = None)
    /\ RecvLock

DrainRecvDone ==
    /\ draining
    /\ RecvDone

\* recv returned None: the callback returns and the dispatch thread idles.
DrainEnd ==
    /\ draining
    /\ dpc = "idle"
    /\ dret.op = "recv"
    /\ dret.val = None
    /\ draining' = FALSE
    /\ UNCHANGED <<mvars, hvars, wvars, evars, gvars, idle_scheduled>>

\* The steps of the dispatch thread once a callback is scheduled, and the
\* steps of a sink thread inside a call.
DispatcherStep == RunIdle \/ DrainRecvLock \/ DrainRecvDone \/ DrainEnd

SinkStep(t) == LockHandle(t) \/ WakeDispatcher(t) \/ LockQueue(t) \/ Push(t)

WakeNext ==
    \/ \E t \in SinkThreads : MakeSink(t)
    \/ \E i \in IdleHandles : InstallHandle(i.handle, i.window_id)
    \/ SetIdleDone
    \/ \E t \in SinkThreads : BeginInstalled(t)
    \/ \E t \in SinkThreads : SinkStep(t)
    \/ DispatcherStep

\* ------------------------------------------------------------------------
\* The harness: events, commands, actions
\* ------------------------------------------------------------------------

\* Command identities are reused in a cycle longer than the queue, so the
\* commands alive at one time are distinct.
MaxCmdId == MaxQueue + 2

\* A Command in the queue: its identity and the kind of pass that submitted
\* it ("event", "command" for the pass that handles a targeted command,
\* "layout", "edit"; "harness" for the argument of submit_command).
Command(id, origin) == [id |-> id, origin |-> origin]

\* An entry of the ActionQueue: (Action, WidgetId, WindowId).
ActionEntry(a, widget, window) == [action |-> a, widget_id |-> widget, window_id |-> window]

\* Event::<kind>, with the mouse state it clones, if any.
Event(kind, arg) == [kind |-> kind, arg |-> arg, cmd |-> None]

\* Event::Internal(InternalEvent::TargetedCommand(cmd))
TargetedCommand(cmd) == [kind |-> "TargetedCommand", arg |-> "", cmd |-> Some(cmd)]

\* MouseButton values the helpers are called with, positions, wheel deltas.
MouseButtons == {"Left"}
Points == {"P"}
WheelDeltas == {"D"}

\* The characters of the typed strings, and the strings.
Characters == {"x"}
Texts == UNION {[1..n -> Characters] : n \in 0..MaxText}

\* Events a test passes to process_event directly.
InjectedEvents == {"AnimFrame"}

\* A command taken from the back of the queue.
NextCommandFromBack(q) == pop_back(q)

\* post_event_stuff, line 154: self.mock_app.command_queue.pop_front()
NextCommand(q) == pop_front(q)

\* An action taken from the back of the queue.
TakeActionFromBack(q) ==
    IF q = << >> THEN [item |-> None, rest |-> q]
    ELSE [item |-> Some([action |-> q[Len(q)].action, widget_id |-> q[Len(q)].widget_id]),
          rest |-> SubSeq(q, 1, Len(q) - 1)]

\* pop_action, lines 426-427: action_queue.pop_front()?, the window id dropped.
TakeAction(q) ==
    IF q = << >> THEN [item |-> None, rest |-> q]
    ELSE [item |-> Some([action |-> Head(q).action, widget_id |-> Head(q).widget_id]),
          rest |-> Tail(q)]

\* The widget whose emitted actions the tests observe.
ActingWidgets == {"a"}

\* What one pass over the widget tree may do with the services its contexts
\* borrow: submit a command, emit an action, request layout, request paint.
PassOutcomes == [cmd : BOOLEAN, act : BOOLEAN, layout : BOOLEAN, paint : BOOLEAN]

\* Region after a paint request reached the window.
Invalidate(region, paint) == IF paint /\ region = "EMPTY" THEN "PART" ELSE region

\* The queues after a pass with outcome o, run when the command queue is q.
\* A submitted command is pushed at the back of the command queue, an
\* emitted action at the back of the action queue.
RunPass(origin, q, o, widget) ==
    /\ o.cmd => Len(q) < MaxQueue
    /\ o.act => Len(emitted) < MaxActions
    /\ command_queue' = IF o.cmd THEN Append(q, Command(nextCmd, origin)) ELSE q
    /\ nextCmd' = IF o.cmd THEN (nextCmd % MaxCmdId) + 1 ELSE nextCmd
    /\ action_queue' =
           IF o.act
           THEN Append(action_queue, ActionEntry(Len(emitted) + 1, widget, "w1"))
           ELSE action_queue
    /\ emitted' =
           IF o.act
           THEN Append(emitted, [action |-> Len(emitted) + 1, widget_id |-> widget])
           ELSE emitted

\* MockAppRoot::event: one event pass over the tree (with the lifecycle
\* passes it triggers); the queues and the root flags are lent to it.
MockAppEvent(ev, q) ==
    \E o \in PassOutcomes, w \in ActingWidgets :
        /\ RunPass(IF ev.kind = "TargetedCommand" THEN "command" ELSE "event", q, o, w)
        /\ needs_layout' = (needs_layout \/ o.layout)
        /\ child_needs_layout' = (child_needs_layout \/ o.layout)
        /\ invalid' = Invalidate(invalid, o.paint)
        /\ flagged' = (flagged \/ o.layout \/ o.paint)
        /\ lastEvent' = ev

\* A layout pass that leaves the flags of the widgets as they were.
MockAppLayoutKeepsFlags ==
    /\ \E o \in PassOutcomes, w \in ActingWidgets :
           /\ ~o.layout /\ ~o.paint
           /\ RunPass("layout", command_queue, o, w)
    /\ UNCHANGED <<needs_layout, child_needs_layout>>

\* An empty region.
EmptyRegion == "EMPTY"

\* post_event_stuff, line 166: Region::from(self.window_size.to_rect()).
WindowRegion == "WINDOW"

\* MockAppRoot::layout: the layout pass; the queues are lent to it as to
\* every pass, and it leaves the root laid out.
MockAppLayout ==
    /\ \E o \in PassOutcomes, w \in ActingWidgets :
           /\ ~o.layout /\ ~o.paint
           /\ RunPass("layout", command_queue, o, w)
    /\ needs_layout' = FALSE
    /\ child_needs_layout' = FALSE

\* No render context exists outside render_to.
NoPiet ==
    [ctx |-> "none", finish_calls |-> 0, log |-> "none", unwinding |-> FALSE,
     region |-> "NONE", rerender |-> FALSE]

HInit ==
    /\ command_queue = << >>
    /\ action_queue = << >>
    /\ needs_layout = TRUE
    /\ child_needs_layout = TRUE
    /\ flagged = TRUE
    /\ invalid = "EMPTY"
    /\ mouse_state = [pos |-> "ZERO", buttons |-> {}, button |-> "None",
                      wheel_delta |-> "ZERO"]
    /\ hpc = "create"
    /\ call = "create_with_size"
    /\ inspected = << >>
    /\ children_changed = << >>
    /\ piet = NoPiet
    /\ script = << >>
    /\ pressed = {}
    /\ clicks = << >>
    /\ todo = << >>
    /\ chars = << >>
    /\ lastEvent = Event("None", "")
    /\ nextCmd = 1
    /\ lastPop = None
    /\ emitted = << >>
    /\ popped = << >>

\* The widgets of the tree under test; "r" is the root.
TreeWidgets == {"r", "a", "b", "c"}

\* Widget::children() of each widget of the tree.
children(w) ==
    CASE w = "r" -> <<"a", "b">>
      [] w = "a" -> <<"c">>
      [] OTHER -> << >>

\* An inspection that looks at the given widget only.
inspect_root_only(w) == <<w>>

RECURSIVE inspect(_)
\* inspect_widgets, lines 362-370: f(widget), then inspect(child, f) for each
\* child of widget.children(); the widgets f is applied to, in order.
inspect(w) ==
    LET RECURSIVE each(_)
        each(cs) == IF cs = << >> THEN << >> ELSE inspect(Head(cs)) \o each(Tail(cs))
    IN  <<w>> \o each(children(w))

\* create_with_size(root, window_size), lines 132-135: the closure
\* assert!(widget.state().children_changed) is applied to the widgets of
\* the tree, then process_event(WindowConnected) and
\* process_event(WindowSize(window_size)) are called.
CreateWithSize ==
    /\ hpc = "create"
    /\ \E root \in [TreeWidgets -> BOOLEAN] :
           /\ children_changed' = root
           /\ inspected' = inspect("r")
           /\ IF \A i \in 1..Len(inspect("r")) : root[inspect("r")[i]]
              THEN /\ todo' = <<Event("WindowConnected", ""),
                                Event("WindowSize", "window_size")>>
                   /\ hpc' = "event"
              ELSE /\ todo' = todo
                   /\ hpc' = "assert_failed"
    /\ UNCHANGED <<mvars, wvars, xvars, flagged, clicks, pressed, script, piet, child_needs_layout,
                   command_queue, action_queue, needs_layout, invalid, mouse_state,
                   call, chars, lastEvent, nextCmd, lastPop, emitted, popped>>

\* An entry point that is process_event(ev) after an update of mouse_state.
Enter(name, ms, evs) ==
    /\ hpc = "idle"
    /\ call' = name
    /\ mouse_state' = ms
    /\ todo' = evs
    /\ hpc' = IF evs = << >> THEN "idle" ELSE "event"
    /\ UNCHANGED <<mvars, wvars, xvars, flagged, clicks, pressed, script, piet, children_changed,
                   inspected, child_needs_layout, command_queue, action_queue,
                   needs_layout, invalid, chars, lastEvent, nextCmd, lastPop,
                   emitted, popped>>

\* process_event(event), lines 145-149.
ProcessEvent(kind) ==
    Enter("process_event", mouse_state, <<Event(kind, "")>>)

\* mouse_move(pos), lines 215-223.
MouseMove(pos) ==
    LET ms == [mouse_state EXCEPT !.pos = pos, !.button = "None"] IN
    Enter("mouse_move", ms, <<Event("MouseMove", pos)>>)

\* mouse_button_press(button), lines 226-231.
MouseButtonPress(button) ==
    LET ms == [mouse_state EXCEPT !.buttons = @ \cup {button}, !.button = button] IN
    Enter("mouse_button_press", ms, <<Event("MouseDown", button)>>)

\* mouse_button_release(button), lines 234-239.
MouseButtonRelease(button) ==
    LET ms == [mouse_state EXCEPT !.buttons = @ \ {button}, !.button = button] IN
    Enter("mouse_button_release", ms, <<Event("MouseUp", button)>>)

\* mouse_wheel(wheel_delta), lines 242-248.
MouseWheel(delta) ==
    LET ms == [mouse_state EXCEPT !.button = "None", !.wheel_delta = delta] IN
    Enter("mouse_wheel", ms, <<Event("Wheel", delta)>>)

\* submit_command(command), lines 312-316: the command goes straight to
\* process_event as a targeted command, not through the queue.
SubmitCommand ==
    Enter("submit_command", mouse_state, <<TargetedCommand(Command(0, "harness"))>>)

\* move_timers_forward(duration), lines 318-330: process_event(Timer(token))
\* for each of the n tokens the mock timer queue reports due.
MoveTimersForward(n) ==
    Enter("move_timers_forward", mouse_state, [i \in 1..n |-> Event("Timer", "token")])

\* process_event, line 146: self.mock_app.event(event).
EventStep ==
    /\ hpc = "event"
    /\ MockAppEvent(Head(todo), command_queue)
    /\ todo' = Tail(todo)
    /\ hpc' = "drain"
    /\ UNCHANGED <<mvars, wvars, xvars, clicks, pressed, script, piet, children_changed,
                   inspected, mouse_state, call, chars, lastPop, popped>>

\* post_event_stuff, lines 153-161: a command is popped from the front and
\* delivered as Event::Internal(TargetedCommand(cmd)); the loop goes on.
DrainDispatch ==
    /\ hpc = "drain"
    /\ command_queue # << >>
    /\ LET r == NextCommand(command_queue) IN
           MockAppEvent(TargetedCommand(r.item[1]), r.rest)
    /\ UNCHANGED <<mvars, wvars, xvars, clicks, pressed, script, piet, children_changed,
                   inspected, mouse_state, hpc, call, todo, chars, lastPop, popped>>

\* post_event_stuff, line 159: None => break.
DrainBreak ==
    /\ hpc = "drain"
    /\ command_queue = << >>
    /\ hpc' = "layout"
    /\ UNCHANGED <<mvars, wvars, xvars, flagged, clicks, pressed, script, piet, children_changed,
                   inspected, child_needs_layout, command_queue, action_queue,
                   needs_layout, invalid, mouse_state, call, todo, chars, lastEvent,
                   nextCmd, lastPop, emitted, popped>>

\* The caller of post_event_stuff goes on: process_event is called for the
\* next event of the call, mouse_click_on calls its next helper, or the
\* entry point returns (mouse_wheel resets wheel_delta first, line 247).
Continue ==
    /\ hpc' = IF todo # << >> THEN "event"
              ELSE IF script # << >> THEN "helper"
              ELSE "idle"
    /\ mouse_state' =
           IF todo = << >> /\ call = "mouse_wheel"
           THEN [mouse_state EXCEPT !.wheel_delta = "ZERO"]
           ELSE mouse_state

\* post_event_stuff, lines 164-167: if the root needs layout, the layout
\* pass runs (it clears the flag) and the whole window becomes invalid.
LayoutStep ==
    /\ hpc = "layout"
    /\ flagged' = FALSE
    /\ IF needs_layout
       THEN /\ MockAppLayout
            /\ invalid' = WindowRegion
       ELSE UNCHANGED <<command_queue, nextCmd, action_queue, emitted, needs_layout,
                        child_needs_layout,
                        invalid>>
    /\ Continue
    /\ UNCHANGED <<mvars, wvars, xvars, clicks, pressed, script, piet, children_changed,
                   inspected, call, todo, chars, lastEvent, lastPop, popped>>

\* keyboard_type_chars(text), lines 283-285.
KeyboardTypeChars(text) ==
    /\ hpc = "idle"
    /\ call' = "keyboard_type_chars"
    /\ chars' = text
    /\ hpc' = IF text = << >> THEN "drain" ELSE "key_down"
    /\ UNCHANGED <<mvars, wvars, xvars, flagged, clicks, pressed, script, piet, children_changed,
                   inspected, child_needs_layout, command_queue, action_queue,
                   needs_layout, invalid, mouse_state, todo, lastEvent, nextCmd,
                   lastPop, emitted, popped>>

\* keyboard_type_chars, lines 286-303: mock_app.event(KeyDown); when it is
\* not handled and a focused IME handler took the text, the modified widget
\* is sent RouteImeStateChange next.
KeyDown ==
    /\ hpc = "key_down"
    /\ MockAppEvent(Event("KeyDown", Head(chars)), command_queue)
    /\ \E handled \in BOOLEAN, modified_widget \in BOOLEAN :
           /\ handled => ~modified_widget
           /\ hpc' = IF modified_widget THEN "key_ime" ELSE "key_up"
    /\ UNCHANGED <<mvars, wvars, xvars, clicks, pressed, script, piet, children_changed,
                   inspected, mouse_state, call, todo, chars, lastPop, popped>>

\* keyboard_type_chars, lines 300-301: mock_app.event(RouteImeStateChange).
KeyIme ==
    /\ hpc = "key_ime"
    /\ MockAppEvent(Event("RouteImeStateChange", Head(chars)), command_queue)
    /\ hpc' = "key_up"
    /\ UNCHANGED <<mvars, wvars, xvars, clicks, pressed, script, piet, children_changed,
                   inspected, mouse_state, call, todo, chars, lastPop, popped>>

\* keyboard_type_chars, lines 305-307: mock_app.event(KeyUp); after the
\* last character, post_event_stuff.
KeyUp ==
    /\ hpc = "key_up"
    /\ MockAppEvent(Event("KeyUp", Head(chars)), command_queue)
    /\ chars' = Tail(chars)
    /\ hpc' = IF Tail(chars) = << >> THEN "drain" ELSE "key_down"
    /\ UNCHANGED <<mvars, wvars, xvars, clicks, pressed, script, piet, children_changed,
                   inspected, mouse_state, call, todo, lastPop, popped>>

\* edit_root_widget, lines 380-405: the closure runs on the root WidgetMut;
\* through its context it may submit a command, emit an action and request
\* layout or paint.
EditRootWidget ==
    /\ hpc = "idle"
    /\ call' = "edit_root_widget"
    /\ \E o \in PassOutcomes, w \in ActingWidgets :
           /\ RunPass("edit", command_queue, o, w)
           /\ needs_layout' = (needs_layout \/ o.layout)
           /\ child_needs_layout' = (child_needs_layout \/ o.layout)
           /\ invalid' = Invalidate(invalid, o.paint)
           /\ flagged' = (flagged \/ o.layout \/ o.paint)
    /\ hpc' = "edit_post"
    /\ UNCHANGED <<mvars, wvars, xvars, clicks, pressed, script, piet, children_changed,
                   inspected, mouse_state, todo, chars, lastEvent, lastPop, popped>>

\* edit_root_widget returning right after post_event_processing.
skip_post_event_stuff == "idle"

\* edit_root_widget, line 420: self.post_event_stuff(), entered at its drain loop.
post_event_stuff == "drain"

\* edit_root_widget, lines 412-420: post_event_processing on the copy of the
\* root state, then post_event_stuff.
EditPostProcessing ==
    /\ hpc = "edit_post"
    /\ hpc' = post_event_stuff
    /\ UNCHANGED <<mvars, wvars, xvars, flagged, clicks, pressed, script, piet, children_changed,
                   inspected, child_needs_layout, command_queue, action_queue,
                   needs_layout, invalid, mouse_state, call, todo, chars, lastEvent,
                   nextCmd, lastPop, emitted, popped>>

\* pop_action, lines 425-428.
PopAction ==
    /\ hpc = "idle"
    /\ call' = "pop_action"
    /\ LET r == TakeAction(action_queue) IN
        /\ lastPop' = r.item
        /\ action_queue' = r.rest
        /\ popped' = popped \o r.item
    /\ UNCHANGED <<mvars, wvars, xvars, flagged, clicks, pressed, script, piet, children_changed,
                   inspected, child_needs_layout, command_queue, needs_layout,
                   invalid, mouse_state, hpc, todo, chars, lastEvent, nextCmd,
                   emitted>>

\* A read of the destination that leaves it as it is.
mem_peek(dest, src) == [dest |-> dest, taken |-> dest]

\* std::mem::replace(dest, src), line 188: src is moved into dest and the
\* value dest held is returned.
mem_replace(dest, src) == [dest |-> src, taken |-> dest]

\* render_to, line 185: RenderContextGuard(render_target.render_context()).
\* The render context records whether the harness step before this one was
\* a render too.
RenderTo ==
    /\ hpc = "idle"
    /\ call' = "render"
    /\ piet' = [NoPiet EXCEPT !.ctx = "acquired", !.rerender = (call = "render")]
    /\ hpc' = "render_paint"
    /\ UNCHANGED <<mvars, wvars, xvars, flagged, clicks, pressed, script, children_changed,
                   inspected, child_needs_layout, command_queue, action_queue,
                   needs_layout, invalid, mouse_state, todo, chars, lastEvent,
                   nextCmd, lastPop, emitted, popped>>

\* render_to, lines 188-189: the invalid region is taken (replaced by
\* Region::EMPTY) and MockAppRoot::paint_region runs the paint pass, which
\* draws and returns or panics; either way the guard goes out of scope next.
PaintRegion ==
    /\ hpc = "render_paint"
    /\ LET r == mem_replace(invalid, "EMPTY") IN
        /\ invalid' = r.dest
        /\ \E panics \in BOOLEAN :
               piet' = [piet EXCEPT !.unwinding = panics, !.region = r.taken]
    /\ hpc' = "render_drop"
    /\ UNCHANGED <<mvars, wvars, xvars, flagged, clicks, pressed, script, children_changed,
                   inspected, child_needs_layout, command_queue, action_queue,
                   needs_layout, mouse_state, call, todo, chars, lastEvent, nextCmd,
                   lastPop, emitted, popped>>

\* A drop that panics when finish fails.
DropUnwraps(finished) == IF finished = "Err" THEN "panic" ELSE "none"

\* RenderContextGuard::drop, lines 177-180: if let Err(err) = self.0.finish()
\* { tracing::error!(..) }.
DropLogs(finished) == IF finished = "Err" THEN "error logged" ELSE "none"

\* impl Drop for RenderContextGuard, lines 175-182: finish is called on the
\* render context, whether the scope is left by return or by unwinding.
GuardDrop ==
    /\ hpc = "render_drop"
    /\ \E finished \in {"Ok", "Err"} :
           /\ piet' = [piet EXCEPT !.ctx = "finished",
                                   !.finish_calls = @ + 1,
                                   !.log = DropLogs(finished)]
           /\ hpc' = IF DropLogs(finished) = "panic"
                     THEN (IF piet.unwinding THEN "aborted" ELSE "render_panicked")
                     ELSE "render_exit"
    /\ UNCHANGED <<mvars, wvars, xvars, flagged, clicks, pressed, script, children_changed,
                   inspected, child_needs_layout, command_queue, action_queue,
                   needs_layout, invalid, mouse_state, call, todo, chars, lastEvent,
                   nextCmd, lastPop, emitted, popped>>

\* render_to is left: it returns to the test, or the panic of the paint pass
\* goes on unwinding; the guard no longer exists.
RenderExit ==
    /\ hpc = "render_exit"
    /\ hpc' = IF piet.unwinding THEN "render_panicked" ELSE "idle"
    /\ piet' = IF piet.unwinding THEN piet ELSE NoPiet
    /\ UNCHANGED <<mvars, wvars, xvars, flagged, clicks, pressed, script, children_changed,
                   inspected, child_needs_layout, command_queue, action_queue,
                   needs_layout, invalid, mouse_state, call, todo, chars, lastEvent,
                   nextCmd, lastPop, emitted, popped>>

\* ------------------------------------------------------------------------
\* Clicking on button-like widgets
\* ------------------------------------------------------------------------

\* The button-like widgets of the tree, by WidgetId.
Buttons == WidgetIds

\* widget.state().window_layout_rect().center() of a widget.
Center(id) == IF id = "a" THEN "center_a" ELSE "center_b"

\* Positions a test moves the mouse to.
ClickPoints == {"P"} \cup {Center(id) : id \in Buttons}

\* The button under a position, if any.
HitTest(pos) == {id \in Buttons : pos = Center(id)}

\* A click that releases before it presses.
mouse_click_on_release_first(id) ==
    <<[op |-> "mouse_move", arg |-> Center(id)],
      [op |-> "mouse_button_release", arg |-> "Left"],
      [op |-> "mouse_button_press", arg |-> "Left"]>>

\* mouse_click_on(id), lines 254-259: the helpers it calls, in order.
mouse_click_on(id) ==
    <<[op |-> "mouse_move", arg |-> Center(id)],
      [op |-> "mouse_button_press", arg |-> "Left"],
      [op |-> "mouse_button_release", arg |-> "Left"]>>

\* mouse_click_on(id), lines 253-255.
MouseClickOn(id) ==
    /\ hpc = "idle"
    /\ Len(emitted) < MaxActions
    /\ call' = "mouse_click_on"
    /\ clicks' = Append(clicks, id)
    /\ script' = mouse_click_on(id)
    /\ hpc' = "helper"
    /\ UNCHANGED <<mvars, wvars, xvars, flagged, pressed, piet, children_changed, inspected,
                   child_needs_layout, command_queue, action_queue, needs_layout,
                   invalid, mouse_state, todo, chars, lastEvent, nextCmd, lastPop,
                   emitted, popped>>

\* mouse_move / mouse_button_press / mouse_button_release (lines 215-239)
\* called by mouse_click_on: mouse_state is updated and the event that
\* clones it goes to process_event.
ClickHelper ==
    /\ hpc = "helper"
    /\ LET h == Head(script) IN
        /\ mouse_state' =
               CASE h.op = "mouse_move" ->
                        [mouse_state EXCEPT !.pos = h.arg, !.button = "None"]
                 [] h.op = "mouse_button_press" ->
                        [mouse_state EXCEPT !.buttons = @ \cup {h.arg}, !.button = h.arg]
                 [] h.op = "mouse_button_release" ->
                        [mouse_state EXCEPT !.buttons = @ \ {h.arg}, !.button = h.arg]
        /\ todo' =
               CASE h.op = "mouse_move" -> <<Event("MouseMove", "")>>
                 [] h.op = "mouse_button_press" -> <<Event("MouseDown", h.arg)>>
                 [] h.op = "mouse_button_release" -> <<Event("MouseUp", h.arg)>>
    /\ script' = Tail(script)
    /\ hpc' = "event"
    /\ UNCHANGED <<mvars, wvars, xvars, flagged, clicks, pressed, piet, children_changed, inspected,
                   child_needs_layout, command_queue, action_queue, needs_layout,
                   invalid, call, chars, lastEvent, nextCmd, lastPop, emitted,
                   popped>>

\* mouse_move(pos) of a test, to a button or elsewhere.
ClickMouseMove(pos) ==
    /\ hpc = "idle"
    /\ call' = "mouse_move"
    /\ mouse_state' = [mouse_state EXCEPT !.pos = pos, !.button = "None"]
    /\ todo' = <<Event("MouseMove", "")>>
    /\ hpc' = "event"
    /\ UNCHANGED <<mvars, wvars, xvars, flagged, clicks, pressed, script, piet, children_changed,
                   inspected, child_needs_layout, command_queue, action_queue,
                   needs_layout, invalid, chars, lastEvent, nextCmd, lastPop,
                   emitted, popped>>

\* An event pass over a tree of button-like widgets: the button under the
\* mouse is pressed by MouseDown(Left) and emits one action when MouseUp(Left)
\* releases it; handling any event may submit a command.
ButtonTreeEvent(ev, q) ==
    LET hit == IF ev.kind \in {"MouseDown", "MouseUp"} /\ ev.arg = "Left"
               THEN HitTest(mouse_state.pos) ELSE {}
        acts == ev.kind = "MouseUp" /\ hit \cap pressed # {}
    IN  /\ \E submits \in BOOLEAN, w \in (IF acts THEN hit ELSE ActingWidgets) :
               RunPass(IF ev.kind = "TargetedCommand" THEN "command" ELSE "event", q,
                       [cmd |-> submits, act |-> acts, layout |-> FALSE, paint |-> FALSE],
                       w)
        /\ pressed' = CASE ev.kind = "MouseDown" -> pressed \cup hit
                         [] ev.kind = "MouseUp" -> pressed \ hit
                         [] OTHER -> pressed
        /\ lastEvent' = ev

\* process_event, line 146, on the tree of buttons.
ButtonEventStep ==
    /\ hpc = "event"
    /\ ButtonTreeEvent(Head(todo), command_queue)
    /\ todo' = Tail(todo)
    /\ hpc' = "drain"
    /\ UNCHANGED <<mvars, wvars, xvars, flagged, clicks, script, piet, children_changed, inspected,
                   child_needs_layout, needs_layout, invalid, mouse_state, call,
                   chars, lastPop, popped>>

\* post_event_stuff, lines 153-161, on the tree of buttons.
ButtonDrainDispatch ==
    /\ hpc = "drain"
    /\ command_queue # << >>
    /\ LET r == NextCommand(command_queue) IN
           ButtonTreeEvent(TargetedCommand(r.item[1]), r.rest)
    /\ UNCHANGED <<mvars, wvars, xvars, flagged, clicks, script, piet, children_changed, inspected,
                   child_needs_layout, needs_layout, invalid, mouse_state, hpc,
                   call, todo, chars, lastPop, popped>>

\* post_event_stuff, lines 164-167, on the tree of buttons: the layout pass
\* lays the buttons out and touches no queue.
ButtonLayoutStep ==
    /\ hpc = "layout"
    /\ needs_layout' = FALSE
    /\ child_needs_layout' = FALSE
    /\ invalid' = IF needs_layout THEN WindowRegion ELSE invalid
    /\ flagged' = FALSE
    /\ Continue
    /\ UNCHANGED <<mvars, wvars, xvars, clicks, pressed, script, piet, children_changed,
                   inspected, command_queue, action_queue, call, todo, chars,
                   lastEvent, nextCmd, lastPop, emitted, popped>>

\* The steps the harness takes inside a call.
HStep ==
    \/ CreateWithSize
    \/ EventStep
    \/ DrainDispatch
    \/ DrainBreak
    \/ LayoutStep
    \/ KeyDown
    \/ KeyIme
    \/ KeyUp
    \/ EditPostProcessing

\* The calls a test makes.
HCall ==
    \/ \E k \in InjectedEvents : ProcessEvent(k)
    \/ \E pos \in Points : MouseMove(pos)
    \/ \E b \in MouseButtons : MouseButtonPress(b)
    \/ \E b \in MouseButtons : MouseButtonRelease(b)
    \/ \E d \in WheelDeltas : MouseWheel(d)
    \/ SubmitCommand
    \/ \E n \in 0..MaxTimers : MoveTimersForward(n)
    \/ \E text \in Texts : KeyboardTypeChars(text)
    \/ EditRootWidget
    \/ PopAction

HNext == HStep \/ HCall

\* ------------------------------------------------------------------------
\* The widgets: WebImage and Spinner
\* ------------------------------------------------------------------------

\* The WebImage widgets of the tree, the Spinner, and all of them.
WebImages == {"img1", "img2"}
TheSpinner == "spinner"
PassWidgets == WebImages \cup {TheSpinner}

\* Tokens compute_in_background hands out during a run.
MaxTokens == 2

\* PromiseToken::empty(): the token of no computation.
EmptyToken == 0

\* What reqwest::blocking::get, response.bytes() and ImageBuf::from_data
\* can do with the url.
FetchOutcomes == {"request error", "body error", "decode error", "ok"}

\* load_image(url), lines 60-83: None after each of the three errors,
\* Some(image_buf) otherwise.
load_image(outcome) == IF outcome = "ok" THEN Some("image") ELSE None

\* A computation that passes the failure on.
unwrap_or_err(opt, default) == IF opt = None THEN "Err" ELSE opt[1]

\* Option::unwrap_or
unwrap_or(opt, default) == IF opt = None THEN default ELSE opt[1]

\* The closure given to compute_in_background, line 90.
LoadResult(outcome) == unwrap_or(load_image(outcome), "ImageBuf::empty")

\* Event::PromiseResult(result), and an event of another kind.
PromiseResult(r) == [kind |-> "PromiseResult", token |-> r.token, value |-> r.value]
OtherEvent == [kind |-> "Other", token |-> EmptyToken, value |-> ""]

\* result.try_get(token): the value when the result answers that token.
try_get(ev, token) == IF ev.token = token THEN Some(ev.value) ELSE None

\* The child a WebImage passes a call on to, lines 50-54 (95-99, 119-123).
ChildOf(st) == IF st.inner # None THEN "inner" ELSE "placeholder"

\* An on_event that takes any promise result for its own.
WebImage_on_event_unchecked(st, ev) ==
    IF ev.kind = "PromiseResult"
    THEN [st |-> [st EXCEPT !.inner = Some(ev.value)],
          trace |-> <<"init", "children_changed", "skip_child placeholder">>]
    ELSE [st |-> st, trace |-> <<"init", ChildOf(st) \o ".on_event">>]

\* WebImage::on_event, lines 35-55: the state after the call and the
\* context calls made, in order.
WebImage_on_event(st, ev) ==
    LET got == IF ev.kind = "PromiseResult" THEN try_get(ev, st.image_promise)
               ELSE None
    IN  IF got # None
        THEN [st |-> [st EXCEPT !.inner = Some(got[1])],
              trace |-> <<"init", "children_changed", "skip_child placeholder">>]
        ELSE [st |-> st, trace |-> <<"init", ChildOf(st) \o ".on_event">>]

\* A lifecycle that schedules the load and forgets the token.
WebImage_lifecycle_forgets(st, event, token) ==
    IF event = "WidgetAdded"
    THEN [st |-> st,
          trace |-> <<"init", "compute_in_background", ChildOf(st) \o ".lifecycle">>]
    ELSE [st |-> st, trace |-> <<"init", ChildOf(st) \o ".lifecycle">>]

\* WebImage::lifecycle, lines 85-99, given the token compute_in_background
\* returns.
WebImage_lifecycle(st, event, token) ==
    IF event = "WidgetAdded"
    THEN [st |-> [st EXCEPT !.image_promise = token],
          trace |-> <<"init", "compute_in_background", ChildOf(st) \o ".lifecycle">>]
    ELSE [st |-> st, trace |-> <<"init", ChildOf(st) \o ".lifecycle">>]

\* WebImage::layout, lines 102-114.
WebImage_layout(st) ==
    <<"init", ChildOf(st) \o ".layout", "place_child " \o ChildOf(st) \o " ORIGIN">>

\* WebImage::layout, lines 106-112: the Size returned is the one the layout
\* of the child returned.
WebImage_layout_size(st, sizes) ==
    IF st.inner # None THEN sizes.inner ELSE sizes.placeholder

\* A paint that always goes to the placeholder.
WebImage_paint_placeholder(st) == <<"init", "placeholder.paint">>

\* WebImage::paint, lines 116-124.
WebImage_paint(st) == <<"init", ChildOf(st) \o ".paint">>

\* A children() that keeps reporting the placeholder.
WebImage_children_both(st) ==
    IF st.inner # None THEN <<"placeholder", "inner">> ELSE <<"placeholder">>

\* WebImage::children, lines 126-132.
WebImage_children(st) ==
    IF st.inner # None THEN <<"inner">> ELSE <<"placeholder">>

\* f64::INFINITY in the units of the sizes below, and what is_finite says.
Infinity == 1000
is_finite(x) == x < Infinity

\* env.get(theme::BASIC_WIDGET_HEIGHT), in the units of the sizes below.
BASIC_WIDGET_HEIGHT == 2

Size(w, h) == [width |-> w, height |-> h]

\* What ret holds after a call that returns no Size.
NoSize == Size(0, 0)

\* The sizes the layout of a child can return.
ChildSizes == {Size(1, 1), Size(2, 3)}

\* The BoxConstraints layout is called with: a minimum and a maximum per
\* dimension, the maximum possibly infinite.
Extents == {<<0, 1>>, <<0, 3>>, <<0, Infinity>>, <<3, Infinity>>}
BoxConstraintsSet ==
    {[min |-> Size(w[1], h[1]), max |-> Size(w[2], h[2])] : w \in Extents, h \in Extents}

\* BoxConstraints::is_width_bounded / is_height_bounded / max / constrain.
is_width_bounded(bc) == is_finite(bc.max.width)
is_height_bounded(bc) == is_finite(bc.max.height)
clamp(x, lo, hi) == IF x < lo THEN lo ELSE IF x > hi THEN hi ELSE x
constrain(bc, size) ==
    Size(clamp(size.width, bc.min.width, bc.max.width),
         clamp(size.height, bc.min.height, bc.max.height))

\* Spinner::layout, lines 92-103: the Size returned.
Spinner_layout(bc) ==
    IF is_width_bounded(bc) /\ is_height_bounded(bc)
    THEN bc.max
    ELSE constrain(bc, Size(BASIC_WIDGET_HEIGHT, BASIC_WIDGET_HEIGHT))

\* The phase t counts in quarters: 1.0 is 4 units.
ONE == 4

\* The intervals of the animation frames, in the same units.
Intervals == {0, 1, 6}

\* Event::AnimFrame(interval)
AnimFrame(interval) == [kind |-> "AnimFrame", interval |-> interval]

\* An on_event that paints and asks for no further frame.
Spinner_on_event_last_frame(st, ev) ==
    IF ev.kind = "AnimFrame"
    THEN [st |-> [st EXCEPT !.t = IF st.t + ev.interval >= ONE THEN 0
                                  ELSE st.t + ev.interval],
          trace |-> <<"init", "request_paint">>]
    ELSE [st |-> st, trace |-> <<"init">>]

\* An on_event that wraps the phase around instead of resetting it.
Spinner_on_event_modulo(st, ev) ==
    IF ev.kind = "AnimFrame"
    THEN [st |-> [st EXCEPT !.t = (st.t + ev.interval) % ONE],
          trace |-> <<"init", "request_anim_frame", "request_paint">>]
    ELSE [st |-> st, trace |-> <<"init">>]

\* Spinner::on_event, lines 69-79.
Spinner_on_event(st, ev) ==
    IF ev.kind = "AnimFrame"
    THEN [st |-> [st EXCEPT !.t = IF st.t + ev.interval >= ONE THEN 0
                                  ELSE st.t + ev.interval],
          trace |-> <<"init", "request_anim_frame", "request_paint">>]
    ELSE [st |-> st, trace |-> <<"init">>]

\* Spinner::lifecycle, lines 83-89.
Spinner_lifecycle(event) ==
    IF event = "WidgetAdded"
    THEN <<"init", "request_anim_frame", "request_paint">>
    ELSE <<"init">>

\* A paint that asks for the size before it calls init.
Spinner_paint_init_late == <<"size", "init", "size">> \o [step \in 1..12 |-> "stroke"]

\* Spinner::paint, lines 106-129: init, ctx.size() twice, twelve strokes.
Spinner_paint == <<"init", "size", "size">> \o [step \in 1..12 |-> "stroke"]

\* A set_color that stores the colour and requests nothing.
set_color_silent == << >>

\* A set_color that asks for layout.
set_color_relayout == <<"request_layout">>

\* SpinnerMut::set_color, line 55: the requests made once the colour is stored.
set_color == <<"request_paint">>

\* The colours a spinner is given.
Colors == {"TEXT_COLOR", "PURPLE"}

\* The traces of a call of one widget's method: nothing for the others.
Only(w, tr) == [x \in PassWidgets |-> IF x = w THEN tr ELSE << >>]

WCall(w, method, arg) == [widget |-> w, method |-> method, arg |-> arg]

\* WebImage::new (lines 22-29) for each WebImage, Spinner::default (59-66).
WInit ==
    /\ web = [w \in WebImages |-> [inner |-> None, image_promise |-> EmptyToken]]
    /\ jobs = {}
    /\ results = {}
    /\ nextToken = 1
    /\ processed = {}
    /\ spinner = [t |-> 0, color |-> "TEXT_COLOR"]
    /\ trace = [x \in PassWidgets |-> << >>]
    /\ wcall = WCall("none", "none", "")
    /\ ret = NoSize

\* LifeCycle::WidgetAdded or another lifecycle event reaches a WebImage;
\* WidgetAdded schedules the load of its url in the background.
WebImageLifecycle(w, event) ==
    /\ event = "WidgetAdded" => nextToken <= MaxTokens
    /\ LET r == WebImage_lifecycle(web[w], event, nextToken) IN
        /\ web' = [web EXCEPT ![w] = r.st]
        /\ trace' = Only(w, r.trace)
    /\ jobs' = IF event = "WidgetAdded"
               THEN jobs \cup {[token |-> nextToken, url |-> w]} ELSE jobs
    /\ nextToken' = IF event = "WidgetAdded" THEN nextToken + 1 ELSE nextToken
    /\ wcall' = WCall(w, "lifecycle", event)
    /\ UNCHANGED <<mvars, hvars, xvars, results, processed, spinner>>
    /\ ret' = NoSize

\* A scheduled computation runs in the background: the fetch ends in one of
\* its outcomes and the value the closure returns becomes a promise result.
BackgroundLoad(job, outcome) ==
    /\ job \in jobs
    /\ jobs' = jobs \ {job}
    /\ results' = results \cup
           {[token |-> job.token, value |-> LoadResult(outcome)]}
    /\ UNCHANGED <<mvars, hvars, xvars, web, nextToken, processed, spinner, trace, wcall,
                   ret>>

\* Event::PromiseResult(r) goes through the tree: every WebImage gets it
\* in on_event.
DeliverPromiseResult(r) ==
    /\ r \in results
    /\ results' = results \ {r}
    /\ web' = [w \in WebImages |-> WebImage_on_event(web[w], PromiseResult(r)).st]
    /\ trace' = [x \in PassWidgets |->
                    IF x \in WebImages
                    THEN WebImage_on_event(web[x], PromiseResult(r)).trace
                    ELSE << >>]
    /\ processed' = processed \cup {w \in WebImages : web[w].image_promise = r.token}
    /\ wcall' = WCall("tree", "on_event", "PromiseResult")
    /\ UNCHANGED <<mvars, hvars, xvars, jobs, nextToken, spinner>>
    /\ ret' = NoSize

\* An event of another kind reaches a WebImage.
WebImageOnEvent(w) ==
    /\ LET r == WebImage_on_event(web[w], OtherEvent) IN
        /\ web' = [web EXCEPT ![w] = r.st]
        /\ trace' = Only(w, r.trace)
    /\ wcall' = WCall(w, "on_event", "Other")
    /\ UNCHANGED <<mvars, hvars, xvars, jobs, results, nextToken, processed, spinner>>
    /\ ret' = NoSize

\* The layout pass reaches a WebImage; sizes are the Sizes the layout of
\* its children would return.
WebImageLayout(w, sizes) ==
    /\ trace' = Only(w, WebImage_layout(web[w]))
    /\ wcall' = WCall(w, "layout", sizes)
    /\ ret' = WebImage_layout_size(web[w], sizes)
    /\ UNCHANGED <<mvars, hvars, xvars, web, jobs, results, nextToken, processed, spinner>>

\* The paint pass reaches a WebImage.
WebImagePaint(w) ==
    /\ trace' = Only(w, WebImage_paint(web[w]))
    /\ wcall' = WCall(w, "paint", "")
    /\ UNCHANGED <<mvars, hvars, xvars, web, jobs, results, nextToken, processed, spinner>>
    /\ ret' = NoSize

\* An event reaches the Spinner.
SpinnerOnEvent(ev) ==
    /\ LET r == Spinner_on_event(spinner, ev) IN
        /\ spinner' = r.st
        /\ trace' = Only(TheSpinner, r.trace)
    /\ wcall' = WCall(TheSpinner, "on_event", ev)
    /\ UNCHANGED <<mvars, hvars, xvars, web, jobs, results, nextToken, processed>>
    /\ ret' = NoSize

\* A lifecycle event reaches the Spinner.
SpinnerLifecycle(event) ==
    /\ trace' = Only(TheSpinner, Spinner_lifecycle(event))
    /\ wcall' = WCall(TheSpinner, "lifecycle", event)
    /\ UNCHANGED <<mvars, hvars, xvars, web, jobs, results, nextToken, processed, spinner>>
    /\ ret' = NoSize

\* The layout pass reaches the Spinner with the constraints bc.
SpinnerLayout(bc) ==
    /\ ret' = Spinner_layout(bc)
    /\ trace' = Only(TheSpinner, <<"init">>)
    /\ wcall' = WCall(TheSpinner, "layout", bc)
    /\ UNCHANGED <<mvars, hvars, xvars, web, jobs, results, nextToken, processed, spinner>>

\* The paint pass reaches the Spinner.
SpinnerPaint ==
    /\ trace' = Only(TheSpinner, Spinner_paint)
    /\ wcall' = WCall(TheSpinner, "paint", "")
    /\ UNCHANGED <<mvars, hvars, xvars, web, jobs, results, nextToken, processed, spinner>>
    /\ ret' = NoSize

\* SpinnerMut::set_color(color), lines 53-56.
SpinnerSetColor(color) ==
    /\ spinner' = [spinner EXCEPT !.color = color]
    /\ trace' = Only(TheSpinner, set_color)
    /\ wcall' = WCall(TheSpinner, "set_color", color)
    /\ UNCHANGED <<mvars, hvars, xvars, web, jobs, results, nextToken, processed>>
    /\ ret' = NoSize

\* Passes and calls reaching the WebImages, and their background loads.
WebNext ==
    \/ \E w \in WebImages, event \in {"WidgetAdded", "Other"} : WebImageLifecycle(w, event)
    \/ \E job \in jobs, outcome \in FetchOutcomes : BackgroundLoad(job, outcome)
    \/ \E r \in results : DeliverPromiseResult(r)
    \/ \E w \in WebImages : WebImageOnEvent(w)
    \/ \E w \in WebImages, si, sp \in ChildSizes :
           WebImageLayout(w, [inner |-> si, placeholder |-> sp])
    \/ \E w \in WebImages : WebImagePaint(w)

\* Passes and calls reaching the Spinner.
SpinNext ==
    \/ \E i \in Intervals : SpinnerOnEvent(AnimFrame(i))
    \/ SpinnerOnEvent(OtherEvent)
    \/ \E event \in {"WidgetAdded", "Other"} : SpinnerLifecycle(event)
    \/ \E bc \in BoxConstraintsSet : SpinnerLayout(bc)
    \/ SpinnerPaint
    \/ \E color \in Colors : SpinnerSetColor(color)

WNext == WebNext \/ SpinNext

\* ------------------------------------------------------------------------
\* The edit_spinner test: a harness built with the colour, a harness edited
\* ------------------------------------------------------------------------

\* image_1 is rendered by the harness built from Spinner::new().with_color(c),
\* image_2 by the one built from Spinner::new() and edited (lines 175-193).
Harnesses == {"built", "edited"}

\* The window sizes create_with_size is given.
WindowSizes == {Size(3, 3), Size(6, 4)}

\* Spinner::new, lines 32-34: Spinner::default().
Spinner_new == [t |-> 0, color |-> "TEXT_COLOR"]

\* Spinner::with_color, lines 41-44.
with_color(st, color) == [st EXCEPT !.color = color]

\* The bitmap a render leaves when the paint pass drew nothing.
Blank(size) == [painted |-> FALSE, color |-> "none", t |-> 0, size |-> size]

\* Spinner::paint, lines 108-128: twelve strokes whose colour comes from
\* self.color, whose fade comes from self.t and whose geometry comes from
\* the size of the widget.
Spinner_image(st, size) == [painted |-> TRUE, color |-> st.color, t |-> st.t, size |-> size]

\* A harness not created yet.
NoHarness ==
    [stage |-> "none", spinner |-> Spinner_new, needs_layout |-> FALSE,
     invalid |-> "EMPTY", early |-> FALSE, image |-> Blank(NoSize)]

\* post_event_stuff, lines 164-167, for a tree that submits no command.
PostEventStuff(hr) ==
    IF hr.needs_layout
    THEN [hr EXCEPT !.needs_layout = FALSE, !.invalid = "WINDOW"]
    ELSE hr

\* The requests of a pass or call reach the root: a layout request sets
\* needs_layout, a paint request adds to the invalid region of the window.
Requested(hr, tr) ==
    [hr EXCEPT !.needs_layout = @ \/ (\E i \in 1..Len(tr) : tr[i] = "request_layout"),
               !.invalid = Invalidate(@, \E i \in 1..Len(tr) : tr[i] = "request_paint")]

\* Harness::render, lines 194-210, with render_to, lines 188-189: the paint
\* pass is given the invalid region and draws the widgets it intersects on
\* a fresh bitmap.
Render(hr, size) ==
    IF hr.invalid = "EMPTY" THEN Blank(size) ELSE Spinner_image(hr.spinner, size)

\* The test picks the colour and the window size.
EditSpinnerTest(c, size) ==
    /\ param = None
    /\ param' = Some([color |-> c, window_size |-> size])
    /\ UNCHANGED <<mvars, hvars, wvars, gvars, pvars, hs>>

\* Harness::create_with_size(spinner, size), up to line 132: the root is new
\* and needs layout.
TestCreate(h) ==
    /\ param # None
    /\ hs[h].stage = "none"
    /\ hs' = [hs EXCEPT ![h] =
                 [NoHarness EXCEPT
                     !.stage = "create",
                     !.spinner = IF h = "built"
                                 THEN with_color(Spinner_new, param[1].color)
                                 ELSE Spinner_new,
                     !.needs_layout = TRUE]]
    /\ UNCHANGED <<mvars, hvars, wvars, gvars, pvars, param>>

\* create_with_size, line 134: process_event(WindowConnected); the spinner
\* gets LifeCycle::WidgetAdded, then post_event_stuff.
TestWindowConnected(h) ==
    /\ hs[h].stage = "create"
    /\ hs' = [hs EXCEPT ![h] =
                 [PostEventStuff(Requested(hs[h], Spinner_lifecycle("WidgetAdded")))
                     EXCEPT !.stage = "connected"]]
    /\ UNCHANGED <<mvars, hvars, wvars, gvars, pvars, param>>

\* create_with_size, line 135: process_event(WindowSize(window_size)); the
\* spinner gets the event in on_event, then post_event_stuff.
TestWindowSize(h) ==
    /\ hs[h].stage = "connected"
    /\ LET r == Spinner_on_event(hs[h].spinner, [kind |-> "WindowSize", interval |-> 0]) IN
        hs' = [hs EXCEPT ![h] =
                 [PostEventStuff(Requested([hs[h] EXCEPT !.spinner = r.st], r.trace))
                     EXCEPT !.stage = "ready"]]
    /\ UNCHANGED <<mvars, hvars, wvars, gvars, pvars, param>>

\* A render of the edited harness before the edit.
TestRenderEarly(h) ==
    /\ h = "edited"
    /\ hs[h].stage = "ready"
    /\ ~hs[h].early
    /\ hs' = [hs EXCEPT ![h].image = Render(hs[h], param[1].window_size),
                        ![h].invalid = "EMPTY",
                        ![h].early = TRUE]
    /\ UNCHANGED <<mvars, hvars, wvars, gvars, pvars, param>>

\* edit_root_widget(|spinner, _| spinner.downcast::<Spinner>().unwrap()
\* .set_color(c)), lines 187-190: set_color on the root, then
\* post_event_processing and post_event_stuff (harness.rs 412-420).
TestEdit(h) ==
    /\ h = "edited"
    /\ hs[h].stage = "ready"
    /\ hs' = [hs EXCEPT ![h] =
                 [PostEventStuff(Requested(
                      [hs[h] EXCEPT !.spinner = with_color(@, param[1].color)],
                      set_color))
                     EXCEPT !.stage = "edited"]]
    /\ UNCHANGED <<mvars, hvars, wvars, gvars, pvars, param>>

\* harness.render(), lines 179 and 192: the image the test compares.
TestRender(h) ==
    /\ hs[h].stage = IF h = "built" THEN "ready" ELSE "edited"
    /\ hs' = [hs EXCEPT ![h].image = Render(hs[h], param[1].window_size),
                        ![h].invalid = "EMPTY",
                        ![h].stage = "rendered"]
    /\ UNCHANGED <<mvars, hvars, wvars, gvars, pvars, param>>

TestNext ==
    \/ \E c \in Colors, size \in WindowSizes : EditSpinnerTest(c, size)
    \/ \E h \in Harnesses : TestCreate(h)
    \/ \E h \in Harnesses : TestWindowConnected(h)
    \/ \E h \in Harnesses : TestWindowSize(h)
    \/ \E h \in Harnesses : TestRenderEarly(h)
    \/ \E h \in Harnesses : TestEdit(h)
    \/ \E h \in Harnesses : TestRender(h)

EInit ==
    /\ param = None
    /\ hs = [h \in Harnesses |-> NoHarness]

\* ------------------------------------------------------------------------
\* The delegate context: DelegateCtx::try_get_root / get_root
\* ------------------------------------------------------------------------

\* The concrete types a root widget can have, and the types W a delegate
\* asks for.
WidgetTypes == {"Spinner", "WebImage", "SizedBox"}

\* The functions of AppDelegate that are handed a DelegateCtx, lines 61-100.
Callbacks == {"on_event", "on_command", "on_action", "on_window_added",
              "on_window_removed"}

\* No delegate callback is running.
NoDelegate == [callback |-> "none", method |-> "none", W |-> "none", result |-> "none"]

\* WidgetMut::downcast::<W>(): Some(view of the root as a W) when the root
\* is a W, None otherwise.
downcast(actual, W) == IF actual = W THEN Some(W) ELSE None

\* Option::expect(msg): the content of Some, a panic with msg on None.
expect(opt, msg) == IF opt = None THEN "panic: " \o msg ELSE "view"

\* DelegateCtx::try_get_root::<W>(), lines 50-52: what the caller gets.
try_get_root(actual, W) == IF downcast(actual, W) = None THEN "None" ELSE "Some(view)"

\* DelegateCtx::get_root::<W>(), lines 54-57.
get_root(actual, W) == expect(downcast(actual, W), "wrong widget type")

\* The application starts with a root widget of some concrete type.
LaunchApp(type) ==
    /\ main_root_widget = "none"
    /\ main_root_widget' = type
    /\ UNCHANGED <<mvars, hvars, wvars, evars, pvars, delegate>>

\* The application calls a function of the delegate with a DelegateCtx.
DelegateCallback(cb) ==
    /\ main_root_widget # "none"
    /\ delegate = NoDelegate
    /\ delegate' = [NoDelegate EXCEPT !.callback = cb]
    /\ UNCHANGED <<mvars, hvars, wvars, evars, pvars, main_root_widget>>

\* The callback calls ctx.try_get_root::<W>().
TryGetRoot(W) ==
    /\ delegate.callback # "none"
    /\ delegate.method = "none"
    /\ delegate' = [delegate EXCEPT !.method = "try_get_root", !.W = W,
                                    !.result = try_get_root(main_root_widget, W)]
    /\ UNCHANGED <<mvars, hvars, wvars, evars, pvars, main_root_widget>>

\* The callback calls ctx.get_root::<W>().
GetRoot(W) ==
    /\ delegate.callback # "none"
    /\ delegate.method = "none"
    /\ delegate' = [delegate EXCEPT !.method = "get_root", !.W = W,
                                    !.result = get_root(main_root_widget, W)]
    /\ UNCHANGED <<mvars, hvars, wvars, evars, pvars, main_root_widget>>

\* The callback returns; after a panic it does not.
DelegateReturn ==
    /\ delegate.callback # "none"
    /\ delegate.result \in {"none", "None", "Some(view)", "view"}
    /\ delegate' = NoDelegate
    /\ UNCHANGED <<mvars, hvars, wvars, evars, pvars, main_root_widget>>

DelegateNext ==
    \/ \E type \in WidgetTypes : LaunchApp(type)
    \/ \E cb \in Callbacks : DelegateCallback(cb)
    \/ \E W \in WidgetTypes : TryGetRoot(W)
    \/ \E W \in WidgetTypes : GetRoot(W)
    \/ DelegateReturn

GInit ==
    /\ main_root_widget = "none"
    /\ delegate = NoDelegate

\* No wake was issued yet.
PInit ==
    /\ idle_scheduled = FALSE
    /\ draining = FALSE

XInit == EInit /\ GInit /\ PInit

Init == MInit /\ HInit /\ WInit /\ XInit

\* The mailbox: the dispatch thread and the sink threads, interleaved.
SpecMailbox == Init /\ [][MNext]_vars

\* The harness: a test calling entry points one after the other.
SpecHarness == Init /\ [][HNext]_vars

\* A test that creates the harness, sends events and renders.
RNext ==
    \/ CreateWithSize
    \/ \E k \in InjectedEvents : ProcessEvent(k)
    \/ EventStep
    \/ DrainDispatch
    \/ DrainBreak
    \/ LayoutStep
    \/ RenderTo
    \/ PaintRegion
    \/ GuardDrop
    \/ RenderExit

SpecRender == Init /\ [][RNext]_vars

\* A test that creates the harness on a tree of buttons, moves the mouse,
\* clicks on buttons and pops the actions.
ClickNext ==
    \/ CreateWithSize
    \/ ButtonEventStep
    \/ ButtonDrainDispatch
    \/ DrainBreak
    \/ ButtonLayoutStep
    \/ \E pos \in ClickPoints : ClickMouseMove(pos)
    \/ \E id \in Buttons : MouseClickOn(id)
    \/ ClickHelper
    \/ PopAction

SpecClick == Init /\ [][ClickNext]_vars

\* The WebImages alone, the Spinner alone, and the widgets together.
SpecWebImage == Init /\ [][WebNext]_vars

SpecSpinner == Init /\ [][SpinNext]_vars

SpecWidgets == Init /\ [][WNext]_vars

\* The test edit_spinner: two harnesses, one edited.
SpecEditSpinner == Init /\ [][TestNext]_vars

\* An application calling its delegate.
SpecDelegate == Init /\ [][DelegateNext]_vars

\* The mailbox with a dispatch thread that receives when the platform runs
\* its idle callback, and only then.
SpecWake == Init /\ [][WakeNext]_vars

\* Threads are scheduled: a sink thread inside a call takes its next step,
\* and the dispatch thread runs a scheduled callback to its end.
FairSpecWake ==
    /\ SpecWake
    /\ WF_vars(DispatcherStep)
    /\ \A t \in SinkThreads : WF_vars(SinkStep(t))

\* The harness never pauses inside a call: a call in progress takes its
\* next step.
FairSpecHarness == SpecHarness /\ WF_vars(HStep)

\* ------------------------------------------------------------------------
\* Properties of the mailbox
\* ------------------------------------------------------------------------

\* The queue the owner receives from.
Mailbox == queueMx[OwnerCell].val

\* The thread whose call produced message m (the first component of the
\* payload / result value).
SourceOf(m) == IF m.kind = "Command" THEN m.payload[1] ELSE m.result[1]

\* The messages of thread t, in the order of q.
FromThread(q, t) == SelectSeq(q, LAMBDA m : SourceOf(m) = t)

\* Message m carries exactly the arguments a.
Carries(m, a) ==
    IF a.op = "submit_command"
    THEN /\ m.kind = "Command"
         /\ m.symbol = a.selector
         /\ m.payload = a.payload
         /\ m.target = a.target
    ELSE /\ m.kind = "Promise"
         /\ m.result = a.result
         /\ m.widget = a.target_widget
         /\ m.window = a.target_window

\* The call of thread t has passed the `if let` on the wake handle.
PastWake(t) ==
    \/ pc[t] \in {"queue", "push"}
    \/ pc[t] = "ready" /\ result[t] \in {"Ok", "Err"}

\* The call of thread t has returned (a panic does not return).
Returned(t) == pc[t] = "ready" /\ result[t] # "none"

\* C1: the mailbox is FIFO. What recv has returned so far, followed by what
\* is still queued, is exactly the sequence of messages pushed by the calls
\* that returned Ok, in push order; recv returns the oldest message not yet
\* received, and None exactly when every pushed message has been received.
C1_Fifo ==
    /\ [](received \o Mailbox = enq)
    /\ [][(dpc = "recv" /\ dpc' = "idle") =>
            /\ (dret'.val = None) <=> (received = enq)
            /\ received # enq => dret'.val = Some(enq[Len(received) + 1])]_vars

\* Both threads have pushed, everything was received in order, and a
\* further recv returned None.
C1_Witness ==
    /\ Len(received) >= 3
    /\ Mailbox = << >>
    /\ submitted["t1"] # << >> /\ submitted["t2"] # << >>
    /\ dret.op = "recv" /\ dret.val = None

\* C2: under every interleaving, the messages of one thread that were
\* received or are still queued are exactly the calls of that thread that
\* returned Ok, each once, in the thread's call order, and each carries the
\* arguments it was submitted with (a promise result its widget and window).
C2_NoLossNoDupPerThreadOrder ==
    \A t \in SinkThreads :
        LET got == FromThread(received \o Mailbox, t) IN
        /\ Len(got) = Len(submitted[t])
        /\ \A i \in 1..Len(got) : Carries(got[i], submitted[t][i])

\* Two threads have interleaved their pushes with a recv of the dispatch
\* thread: one thread has two messages through, the other a promise result,
\* part received and part still queued.
C2_Witness ==
    /\ Len(submitted["t1"]) = 2
    /\ Len(submitted["t2"]) = 1
    /\ submitted["t2"][1].op = "resolve_promise"
    /\ SourceOf(enq[1]) = "t1" /\ SourceOf(enq[2]) = "t2" /\ SourceOf(enq[3]) = "t1"
    /\ Len(received) = 2
    /\ Len(Mailbox) = 1

\* C3 (as claimed): a call fails only when a lock of the mailbox is poisoned;
\* the failure is the value Err(ExtEventError), never a panic; the failed
\* call enqueues nothing; with no lock poisoned the call returns Ok.
C3_PoisonIsErr ==
    \A t \in SinkThreads :
        /\ result[t] = "Err" => poisonedAtCall[t] # "none"
        /\ poisonedAtCall[t] # "none" => result[t] = "Err"
        /\ (poisonedAtCall[t] # "none" /\ cur[t] # None) =>
               \A i \in 1..Len(enq) : enq[i] # MessageOf(cur[t][1])
        /\ (Returned(t) /\ poisonedAtCall[t] = "none") => result[t] = "Ok"

\* C4: a call that found a wake handle installed issues exactly one
\* schedule_idle, with EXT_EVENT_IDLE_TOKEN; a call that found none issues no
\* wake, still pushes its message and returns Ok, and the message is then in
\* the queue until recv returns it.
C4_OneWakePerCall ==
    \A t \in SinkThreads :
        /\ PastWake(t) =>
            /\ Len(woken[t]) = (IF installedAtCheck[t] # None THEN 1 ELSE 0)
            /\ \A i \in 1..Len(woken[t]) : woken[t][i].token = EXT_EVENT_IDLE_TOKEN
        /\ (Returned(t) /\ installedAtCheck[t] = None /\ ~queueMx[OwnerCell].poisoned) =>
            /\ result[t] = "Ok"
            /\ LET m == MessageOf(cur[t][1])
                   inQueue == \E i \in 1..Len(Mailbox) : Mailbox[i] = m
                   inReceived == \E i \in 1..Len(received) : received[i] = m
               IN  inQueue # inReceived

\* One call found a handle and woke it once; another found none, returned
\* Ok, and its message waits in the queue.
C4_Witness ==
    \E t, u \in SinkThreads :
        /\ Returned(t) /\ result[t] = "Ok"
        /\ installedAtCheck[t] # None /\ Len(woken[t]) = 1
        /\ Returned(u) /\ result[u] = "Ok"
        /\ installedAtCheck[u] = None /\ woken[u] = << >>
        /\ \E i \in 1..Len(Mailbox) : Mailbox[i] = MessageOf(cur[u][1])

\* C5: once set_idle(h, w) has returned, handle_window_id is Some(w) and the
\* shared handle is h; every sink, whenever it was made or cloned, enqueues
\* into the owner's queue, finds under the handle lock exactly the handle the
\* owner has installed at that moment, and wakes that handle and no other.
C5_SharedReplaceableHandle ==
    /\ (darg # None /\ dpc \in {"idle", "recv", "has_pending_items"}) =>
        /\ handle_window_id = Some(darg[1].window_id)
        /\ handleMx[OwnerCell].val = Some(darg[1].handle)
    /\ \A t \in SinkThreads :
        /\ pc[t] = "push" => queueMx[OwnerCell].owner = t
        /\ Returned(t) /\ result[t] = "Ok" =>
               \E i \in 1..Len(enq) : enq[i] = MessageOf(cur[t][1])
        /\ PastWake(t) =>
            /\ seen[t] = installedAtCheck[t]
            /\ \A i \in 1..Len(woken[t]) : Some(woken[t][i].handle) = installedAtCheck[t]

\* The handle was replaced: one sink woke h1 while it was installed, the
\* other woke h2 after set_idle(h2, w2) replaced it.
C5_Witness ==
    /\ handle_window_id = Some("w2")
    /\ handleMx[OwnerCell].val = Some("h2")
    /\ PastWake("t1") /\ woken["t1"] = <<[handle |-> "h1", token |-> EXT_EVENT_IDLE_TOKEN]>>
    /\ PastWake("t2") /\ woken["t2"] = <<[handle |-> "h2", token |-> EXT_EVENT_IDLE_TOKEN]>>

\* ------------------------------------------------------------------------
\* Properties of the harness
\* ------------------------------------------------------------------------

\* The entry points that send events to the tree.
EntryPoints ==
    {"process_event", "submit_command", "mouse_move", "mouse_button_press",
     "mouse_button_release", "mouse_wheel", "keyboard_type_chars",
     "move_timers_forward", "edit_root_widget"}

IsPrefix(s, t) == Len(s) <= Len(t) /\ SubSeq(t, 1, Len(s)) = s

\* An event is about to be delivered to the tree by the harness itself
\* (not by the drain loop).
AboutToDeliver == hpc \in {"event", "key_down", "key_ime", "key_up"}

\* The step is an iteration of the drain loop that found a command.
Dispatching == hpc = "drain" /\ command_queue # << >>

\* The step is a call of pop_action.
Popping == hpc = "idle" /\ call' = "pop_action"

\* The actions of the queue as pop_action reports them.
Reported(q) == [i \in 1..Len(q) |-> [action |-> q[i].action, widget_id |-> q[i].widget_id]]

\* C6: whenever a harness entry point has returned, the command queue is
\* empty, whichever pass of the call (event, lifecycle or the final layout
\* pass) submitted commands.
C6_QueueEmptyOnReturn ==
    (hpc = "idle" /\ call \in EntryPoints) => command_queue = << >>

\* C7: the drain loop is left after a bounded number of iterations even
\* when every dispatched command submits a further one: a harness that is
\* draining eventually stops draining.
C7_DrainStops == (hpc = "drain") ~> (hpc # "drain")

\* C8: the queued commands are in the order they were submitted; an
\* iteration of the drain loop removes the command at the front and delivers
\* exactly that command as Event::Internal(TargetedCommand), commands
\* submitted meanwhile going behind those already queued; no other step
\* removes a command or delivers a queued one.
C8_DispatchFrontOnce ==
    /\ [](\A i \in 1..Len(command_queue) :
             command_queue[i].id =
                 ((nextCmd - 1 - Len(command_queue) + i - 1 + MaxCmdId) % MaxCmdId) + 1)
    /\ [][IF Dispatching
          THEN /\ lastEvent' = TargetedCommand(Head(command_queue))
               /\ IsPrefix(Tail(command_queue), command_queue')
               /\ Len(command_queue') <= Len(command_queue)
          ELSE /\ IsPrefix(command_queue, command_queue')
               /\ \/ lastEvent' = lastEvent
                  \/ lastEvent'.cmd = None
                  \/ lastEvent'.cmd[1].origin = "harness"]_vars

\* C8 witness: a command submitted by an event pass has been dispatched
\* from the front while another waited behind it, and the command its
\* handling submitted is queued behind that one.
C8_Witness ==
    /\ hpc = "drain"
    /\ lastEvent.cmd # None
    /\ lastEvent.cmd[1].origin = "event"
    /\ Len(command_queue) = 2
    /\ command_queue[1].origin = "event"
    /\ command_queue[2].origin = "command"

\* C9: a command submitted during an event pass is drained before the
\* harness delivers its next event, the KeyDown, IME route and KeyUp events
\* of keyboard_type_chars included.
C9_DrainedBeforeNextEvent ==
    AboutToDeliver =>
        \A i \in 1..Len(command_queue) :
            command_queue[i].origin \notin {"event", "command"}

\* C10: only pop_action removes from the action queue, every other step
\* appends at most; pop_action returns the emitted actions with their widget
\* ids in emission order, and None once all of them have been returned.
C10_OnlyPopActionConsumes ==
    /\ [](popped \o Reported(action_queue) = emitted)
    /\ [][IF Popping
          THEN /\ lastPop' = IF Len(popped) < Len(emitted)
                             THEN Some(emitted[Len(popped) + 1])
                             ELSE None
               /\ action_queue' = IF action_queue = << >> THEN << >>
                                  ELSE Tail(action_queue)
          ELSE IsPrefix(action_queue, action_queue')]_vars

\* C10 witness: two actions were emitted, pop_action returned both in
\* emission order, and the call after that returned None.
C10_Witness ==
    /\ Len(emitted) = MaxActions
    /\ popped = emitted
    /\ action_queue = << >>
    /\ call = "pop_action"
    /\ lastPop = None

RECURSIVE Reachable(_)
Reachable(w) == {w} \cup UNION {Reachable(children(w)[i]) : i \in 1..Len(children(w))}

\* C12: construction checks children_changed on the root and on every
\* widget reachable through children() before any event is delivered, and
\* fails when one of them lacks the flag; only then WindowConnected and
\* WindowSize(window_size) are delivered, these two in this order, the
\* commands of each drained before the next step of the construction.
C12_ConstructionChecksThenConnects ==
    /\ [](hpc = "create" => lastEvent.kind = "None")
    /\ [](hpc # "create" => {inspected[i] : i \in 1..Len(inspected)} = Reachable("r"))
    /\ [](hpc = "assert_failed" =>
              /\ lastEvent.kind = "None"
              /\ \E w \in Reachable("r") : ~children_changed[w])
    /\ [](hpc \notin {"create", "assert_failed"} =>
              \A w \in Reachable("r") : children_changed[w])
    /\ [][(call = "create_with_size" /\ hpc = "create" /\ hpc' = "event") =>
              todo' = <<Event("WindowConnected", ""),
                        Event("WindowSize", "window_size")>>]_vars
    /\ [][(call = "create_with_size" /\ hpc = "event") =>
              /\ lastEvent' = Head(todo)
              /\ todo' = Tail(todo)
              /\ hpc' = "drain"]_vars
    /\ [][(call = "create_with_size" /\ hpc \in {"drain", "layout"}) =>
              /\ todo' = todo
              /\ hpc' # "drain" => command_queue = << >>
              /\ (lastEvent' = lastEvent \/ lastEvent'.kind = "TargetedCommand")]_vars
    /\ []((call = "create_with_size" /\ hpc = "idle") => todo = << >>)

\* C12 witness: the construction has returned; all four widgets of the tree
\* were inspected, and the last event of the construction was a command
\* submitted while WindowSize was handled.
C12_Witness ==
    /\ call = "create_with_size"
    /\ hpc = "idle"
    /\ Len(inspected) = 4
    /\ lastEvent.kind = "TargetedCommand"
    /\ lastEvent.cmd[1].origin = "event"

\* C13: the render context acquired in render_to is released on every exit
\* path: when render_to is left, by return or by the panic of the paint
\* pass, finish has been called exactly once, and render_to is left in no
\* other way; a failing finish is logged and raises no panic, so no second
\* panic occurs while the first one unwinds.
C13_GuardReleasesOnce ==
    /\ [](hpc # "aborted")
    /\ [](hpc \in {"render_exit", "render_panicked"} =>
              /\ piet.ctx = "finished"
              /\ piet.finish_calls = 1
              /\ piet.log \in {"none", "error logged"})
    /\ [](hpc = "render_panicked" => piet.unwinding)
    /\ [](hpc \in {"render_paint", "render_drop"} =>
              piet.ctx = "acquired" /\ piet.finish_calls = 0)
    /\ [][(call = "render" /\ hpc # "idle" /\ hpc' \in {"idle", "render_panicked"}) =>
              hpc = "render_exit"]_vars
    /\ [][hpc = "render_drop" => hpc' = "render_exit"]_vars

\* C13 witness: the paint pass panicked, finish was called once while
\* unwinding and failed, the failure was logged, and the panic went on.
C13_Witness ==
    /\ hpc = "render_panicked"
    /\ piet.unwinding
    /\ piet.finish_calls = 1
    /\ piet.log = "error logged"

\* The click in progress has not delivered its MouseUp yet.
ClickUnfinished ==
    /\ call = "mouse_click_on"
    /\ ~(script = << >> /\ todo = << >> /\ hpc \in {"drain", "layout", "idle"})

\* The number of clicks that have delivered their MouseUp.
ClicksDone == IF ClickUnfinished THEN Len(clicks) - 1 ELSE Len(clicks)

\* C14: mouse_click_on(id) delivers MouseMove, MouseDown(Left), MouseUp(Left)
\* and nothing else, in this order, with the mouse at the centre of the
\* widget each time and the command queue drained to empty after each; on
\* return Left is not among the pressed buttons; a button that emits one
\* action per press-and-release has emitted exactly one action per finished
\* click, so the emitted actions are those of the clicks in click order.
C14_ClickIsMoveDownUp ==
    /\ []((call = "mouse_click_on" /\ hpc = "event") =>
              /\ mouse_state.pos = Center(clicks[Len(clicks)])
              /\ todo = CASE Len(script) = 2 -> <<Event("MouseMove", "")>>
                          [] Len(script) = 1 -> <<Event("MouseDown", "Left")>>
                          [] OTHER -> <<Event("MouseUp", "Left")>>)
    /\ []((call = "mouse_click_on" /\ hpc = "idle") =>
              /\ "Left" \notin mouse_state.buttons
              /\ mouse_state.pos = Center(clicks[Len(clicks)])
              /\ script = << >>
              /\ command_queue = << >>)
    /\ [](emitted = [i \in 1..ClicksDone |-> [action |-> i, widget_id |-> clicks[i]]])
    /\ [][(hpc = "idle" /\ call' = "mouse_click_on") =>
              hpc' = "helper" /\ Len(script') = 3]_vars
    /\ [][(call = "mouse_click_on" /\ hpc = "helper") =>
              /\ hpc' = "event"
              /\ script' = Tail(script)
              /\ lastEvent' = lastEvent]_vars
    /\ [][(call = "mouse_click_on" /\ hpc = "event") =>
              /\ lastEvent' = Head(todo)
              /\ todo' = << >>
              /\ hpc' = "drain"]_vars
    /\ [][(call = "mouse_click_on" /\ hpc = "drain") =>
              /\ hpc' \in {"drain", "layout"}
              /\ hpc' = "layout" => command_queue = << >>
              /\ (lastEvent' = lastEvent \/ lastEvent'.kind = "TargetedCommand")]_vars
    /\ [][(call = "mouse_click_on" /\ hpc = "layout") =>
              /\ hpc' = IF script = << >> THEN "idle" ELSE "helper"
              /\ lastEvent' = lastEvent]_vars

\* C14 witness: two clicks, on button b and then on button a, have
\* returned; each emitted one action, b's before a's; a command submitted
\* while the last MouseUp was handled has been dispatched by the drain.
C14_Witness ==
    /\ call = "mouse_click_on"
    /\ hpc = "idle"
    /\ clicks = <<"b", "a">>
    /\ Len(emitted) = 2
    /\ emitted[1].widget_id = "b"
    /\ emitted[2].widget_id = "a"
    /\ lastEvent.kind = "TargetedCommand"

\* ------------------------------------------------------------------------
\* Properties of the widgets
\* ------------------------------------------------------------------------

\* The step delivers a promise result to the tree, and the result it delivers.
Delivering == results' # results /\ results' \subseteq results
Delivered == CHOOSE r \in results : r \notin results'

\* The step runs a background computation, and the result it produces.
Loading == jobs' # jobs /\ jobs' \subseteq jobs
Loaded == CHOOSE r \in results' : r \notin results

Elements(seq) == {seq[i] : i \in 1..Len(seq)}

ImageValues == {"image", "ImageBuf::empty"}

\* C15: when a PromiseResult goes through the tree, the WebImage whose
\* stored token it answers (there is at most one) sets inner from the value,
\* flags children_changed and forwards the event to no child; every WebImage
\* whose token differs (another widget's or a stale one) keeps inner and
\* token as they were and flags nothing, it only passes the event on.
C15_PromiseRoundTrip ==
    /\ [](\A w1, w2 \in WebImages :
              (w1 # w2 /\ web[w1].image_promise = web[w2].image_promise) =>
                  web[w1].image_promise = EmptyToken)
    /\ [](\A r \in results : r.token # EmptyToken)
    /\ [][Delivering =>
              \A w \in WebImages :
                  IF web[w].image_promise = Delivered.token
                  THEN /\ web'[w] = [web[w] EXCEPT !.inner = Some(Delivered.value)]
                       /\ "children_changed" \in Elements(trace'[w])
                       /\ Elements(trace'[w]) \cap
                              {"inner.on_event", "placeholder.on_event"} = {}
                  ELSE /\ web'[w] = web[w]
                       /\ trace'[w] = <<"init", ChildOf(web[w]) \o ".on_event">>]_vars

\* C15 witness: the result img1 waited on has just gone through the tree;
\* img1 is loaded and has not forwarded the event, img2, waiting on another
\* token, is unchanged and has passed the event to its placeholder.
C15_Witness ==
    /\ wcall.widget = "tree"
    /\ wcall.method = "on_event"
    /\ web["img1"].inner # None
    /\ trace["img1"] = <<"init", "children_changed", "skip_child placeholder">>
    /\ web["img2"].inner = None
    /\ web["img2"].image_promise # EmptyToken
    /\ trace["img2"] = <<"init", "placeholder.on_event">>

\* C16: children() of a WebImage reports exactly one child in every state:
\* the placeholder until a result the widget waited on has been processed,
\* the loaded image from then on; a loaded WebImage never goes back.
C16_ExactlyOneChild ==
    /\ [](\A w \in WebImages :
              /\ Len(WebImage_children(web[w])) = 1
              /\ WebImage_children(web[w]) =
                     IF w \in processed THEN <<"inner">> ELSE <<"placeholder">>)
    /\ [][\A w \in WebImages : web[w].inner # None => web'[w].inner # None]_vars

\* C16 witness: img1 has processed its result and reports the image, img2
\* still waits and reports the placeholder.
C16_Witness ==
    /\ "img1" \in processed
    /\ WebImage_children(web["img1"]) = <<"inner">>
    /\ "img2" \notin processed
    /\ web["img2"].image_promise # EmptyToken
    /\ WebImage_children(web["img2"]) = <<"placeholder">>

\* C17: whatever the fetch does (request error, body read error, decode
\* error, success), the background computation returns an image, the empty
\* image after a failure, never an error; delivered to the WebImage that
\* waits on it, the value makes the widget loaded in all four cases.
C17_LoadAlwaysYieldsImage ==
    /\ [](\A r \in results : r.value \in ImageValues)
    /\ [](\A outcome \in FetchOutcomes :
              LoadResult(outcome) = IF outcome = "ok" THEN "image" ELSE "ImageBuf::empty")
    /\ [][Loading => Loaded.value \in ImageValues]_vars
    /\ [][Delivering =>
              \A w \in WebImages :
                  web[w].image_promise = Delivered.token =>
                      /\ web'[w].inner = Some(Delivered.value)
                      /\ Delivered.value \in ImageValues]_vars

\* C17 witness: a fetch failed and the WebImage that waited on it is loaded
\* with the empty image.
C17_Witness ==
    /\ "img1" \in processed
    /\ web["img1"].inner = Some("ImageBuf::empty")
    /\ wcall.widget = "tree"
    /\ wcall.method = "on_event"

\* C18: Spinner::layout returns the square of side BASIC_WIDGET_HEIGHT when
\* both dimensions of the constraints are unbounded, and the maximum size
\* of the constraints whenever at least one dimension is bounded.
C18_DefaultSquareOrFill ==
    (wcall.widget = TheSpinner /\ wcall.method = "layout") =>
        ret = IF ~is_width_bounded(wcall.arg) /\ ~is_height_bounded(wcall.arg)
              THEN Size(BASIC_WIDGET_HEIGHT, BASIC_WIDGET_HEIGHT)
              ELSE wcall.arg.max

\* The methods a pass enters a widget by.
PassMethods == {"on_event", "lifecycle", "layout", "paint"}

\* C19: in every call of on_event, lifecycle, layout or paint of the Spinner
\* or of a WebImage, on every path, the first context call is init, before
\* any other request and before the call is passed on to a child.
C19_InitFirst ==
    (wcall.method \in PassMethods) =>
        /\ wcall.widget \in PassWidgets => trace[wcall.widget] # << >>
        /\ wcall.widget = "tree" => \A w \in WebImages : trace[w] # << >>
        /\ \A w \in PassWidgets :
               trace[w] # << >> =>
                   /\ trace[w][1] = "init"
                   /\ \A i \in 2..Len(trace[w]) : trace[w][i] # "init"

\* C19 witness: the Spinner has been painted after an animation frame moved
\* its phase, and a WebImage is loaded, so its pass methods ran on both paths.
C19_Witness ==
    /\ wcall.widget = TheSpinner
    /\ wcall.method = "paint"
    /\ Len(trace[TheSpinner]) = 15
    /\ spinner.t # 0
    /\ web["img1"].inner # None

\* C20: set_color stores the colour and requests a repaint, nothing else:
\* no layout request, no animation frame request, and the phase t is the
\* one before the call.
C20_SetColorRepaintOnly ==
    /\ [](wcall.method = "set_color" =>
              /\ trace[TheSpinner] = <<"request_paint">>
              /\ spinner.color = wcall.arg)
    /\ [][wcall'.method = "set_color" => spinner'.t = spinner.t]_vars

\* C20 witness: the colour of a Spinner in the middle of its animation has
\* been set to PURPLE.
C20_Witness ==
    /\ wcall.widget = TheSpinner
    /\ wcall.method = "set_color"
    /\ wcall.arg = "PURPLE"
    /\ spinner.color = "PURPLE"
    /\ spinner.t # 0

\* ------------------------------------------------------------------------
\* Properties of the edit_spinner test
\* ------------------------------------------------------------------------

\* C21: editing is equivalent to constructing. Once the harness built from
\* Spinner::new().with_color(c) and the harness built from Spinner::new()
\* and edited with set_color(c) have both rendered, their spinners are in
\* the same state and their images are equal, for every colour and window
\* size; and when edit_root_widget has returned, the spinner of the edited
\* harness is the one with_color builds and the invalid region of its
\* window is not empty, also when the harness had rendered before the edit.
C21_EditEqualsConstruct ==
    /\ hs["edited"].stage = "edited" =>
           /\ hs["edited"].invalid # "EMPTY"
           /\ hs["edited"].spinner = with_color(Spinner_new, param[1].color)
    /\ (hs["built"].stage = "rendered" /\ hs["edited"].stage = "rendered") =>
           /\ hs["built"].spinner = hs["edited"].spinner
           /\ hs["built"].image = hs["edited"].image
           /\ hs["edited"].image = Spinner_image(with_color(Spinner_new, param[1].color),
                                                 param[1].window_size)

\* Both harnesses have rendered with a colour that is not the default one,
\* the edited one after a render that had emptied its invalid region.
C21_Witness ==
    /\ param # None
    /\ param[1].color = "PURPLE"
    /\ hs["built"].stage = "rendered"
    /\ hs["edited"].stage = "rendered"
    /\ hs["edited"].early
    /\ hs["edited"].image.painted

\* ------------------------------------------------------------------------
\* Properties of the delegate context
\* ------------------------------------------------------------------------

\* C22: a downcast of the root to a type W that is not the type of the root
\* gives the caller a failure value and never a panic, for try_get_root and
\* for get_root; with the type of the root both give a view of the root.
C22_DowncastNeverCrashes ==
    delegate.method \in {"try_get_root", "get_root"} =>
        IF delegate.W = main_root_widget
        THEN delegate.result \in {"Some(view)", "view"}
        ELSE delegate.result = "None"

\* ------------------------------------------------------------------------
\* Properties of the layout decision of a harness step
\* ------------------------------------------------------------------------

\* C23: layout idempotence at the harness level. When a harness step comes
\* to its layout decision and no pass has asked for layout or paint since
\* the layout decision of the step before, the root and its descendants
\* need no layout, so the step runs no layout pass (no flag changes, the
\* queues a layout pass is lent are untouched) and the invalid region stays
\* as it is; and during the step the invalid region changes only in a pass
\* that raises a flag or in a layout decision that runs the layout pass.
C23_LayoutIdempotent ==
    /\ [](hpc = "layout" /\ ~flagged => ~needs_layout /\ ~child_needs_layout)
    /\ [][/\ (hpc = "layout" /\ ~flagged) =>
                 /\ invalid' = invalid
                 /\ ~needs_layout' /\ ~child_needs_layout'
                 /\ command_queue' = command_queue
                 /\ action_queue' = action_queue
          /\ invalid' # invalid => flagged' \/ (hpc = "layout" /\ needs_layout)]_vars

\* A step that raised no flag comes to its layout decision after a step
\* that ran the layout pass.
C23_Witness ==
    /\ hpc = "layout"
    /\ ~flagged
    /\ call = "process_event"
    /\ invalid = "WINDOW"
    /\ ~needs_layout

C24_NoLostWakeUp ==
    \A k \in 1..MaxSubmit : (Len(enq) >= k) ~> (Len(received) >= k)

\* The locks a thread holds.
HoldsHandle(x) == \E c \in Cells : handleMx[c].owner = x
HoldsQueue(x) == \E c \in Cells : queueMx[c].owner = x

\* C25: no thread ever holds the wake-handle lock and the queue lock at the
\* same time. A sink thread holds the handle lock exactly while it wakes
\* and the queue lock exactly while it pushes; the dispatch thread holds the
\* handle lock exactly inside set_idle and the queue lock exactly inside
\* recv or has_pending_items. A thread that holds a lock therefore waits
\* for no other lock, and a thread that waits for a lock holds none: no
\* interleaving can deadlock.
C25_OneLockAtATime ==
    /\ \A x \in SinkThreads \cup {Dispatcher} : ~(HoldsHandle(x) /\ HoldsQueue(x))
    /\ \A t \in SinkThreads :
           /\ HoldsHandle(t) <=> pc[t] = "wake"
           /\ HoldsQueue(t) <=> pc[t] = "push"
    /\ HoldsHandle(Dispatcher) <=> dpc = "set_idle"
    /\ HoldsQueue(Dispatcher) <=> dpc \in {"recv", "has_pending_items"}

\* The two locks are held by two threads at once, and a third thread waits
\* for one of them.
C25_Witness ==
    /\ handleMx[OwnerCell].owner = Dispatcher
    /\ queueMx[OwnerCell].owner = "t1"
    /\ pc["t2"] = "handle"
    /\ sink["t2"] # None

\* ------------------------------------------------------------------------
\* Properties of the routing of passes by a WebImage
\* ------------------------------------------------------------------------

\* The calls of a trace that pass a pass on to a child, and the trace of an
\* on_event that took a promise result for its own.
ChildCalls(tr) ==
    {i \in 1..Len(tr) :
        tr[i] \in {c \o "." \o m : c \in {"inner", "placeholder"}, m \in PassMethods}}
Accepted == <<"init", "children_changed", "skip_child placeholder">>

\* C27: every pass a WebImage gets, except a promise result it accepts, is
\* passed on to exactly one child, the one children() reports when the pass
\* arrives: events it does not accept, lifecycle events, layout (which lays
\* that child out, then places it at the origin, and returns the size the
\* child returned) and paint. Once inner is set the placeholder gets no
\* pass.
C27_RoutedToTheReportedChild ==
    [][\A w \in WebImages :
          (trace'[w] # << >> /\ trace'[w] # Accepted) =>
              LET tr == trace'[w]
                  child == WebImage_children(web[w])[1]
              IN  /\ Cardinality(ChildCalls(tr)) = 1
                  /\ \A i \in ChildCalls(tr) : tr[i] = child \o "." \o wcall'.method
                  /\ wcall'.method = "layout" =>
                         /\ tr = <<"init", child \o ".layout",
                                   "place_child " \o child \o " ORIGIN">>
                         /\ ret' = wcall'.arg[child]
                  /\ web[w].inner # None =>
                         \A i \in 1..Len(tr) :
                             tr[i] \notin {"placeholder." \o m : m \in PassMethods}
                                          \cup {"place_child placeholder ORIGIN"}
                  /\ web'[w].inner = web[w].inner]_vars

\* A loaded WebImage has been laid out with children that would return
\* different sizes, and returned the size of the image.
C27_Witness ==
    /\ wcall.widget = "img1"
    /\ wcall.method = "layout"
    /\ web["img1"].inner # None
    /\ wcall.arg.inner # wcall.arg.placeholder
    /\ ret = wcall.arg.inner
    /\ trace["img1"] = <<"init", "inner.layout", "place_child inner ORIGIN">>

\* A step in which lifecycle event e reaches WebImage w.
LifecycleStep(w, e) ==
    /\ ~Loading
    /\ wcall'.widget = w
    /\ wcall'.method = "lifecycle"
    /\ wcall'.arg = e
    /\ trace'[w] # << >>

\* C28: each WidgetAdded that reaches a WebImage schedules exactly one
\* background computation, for its url, and stores the token returned as
\* the token it waits on, before the event is passed on to its child; no
\* other step schedules work or changes a stored token. A WebImage that has
\* not been added holds the empty token, which is the token of no
\* computation and of no result, so it is never loaded.
C28_WidgetAddedSchedulesOnce ==
    /\ [](\A w \in WebImages :
              /\ web[w].image_promise = EmptyToken => web[w].inner = None
              /\ \A r \in jobs \cup results : r.token # EmptyToken)
    /\ [][\A w \in WebImages :
              IF LifecycleStep(w, "WidgetAdded")
              THEN /\ jobs' = jobs \cup {[token |-> nextToken, url |-> w]}
                   /\ Cardinality(jobs') = Cardinality(jobs) + 1
                   /\ web'[w].image_promise = nextToken
                   /\ \A v \in WebImages \ {w} : web'[v] = web[v]
                   /\ trace'[w] = <<"init", "compute_in_background",
                                    ChildOf(web[w]) \o ".lifecycle">>
              ELSE /\ (\A v \in WebImages : ~LifecycleStep(v, "WidgetAdded")) =>
                          jobs' \subseteq jobs
                   /\ web'[w].image_promise = web[w].image_promise
                   /\ \A i \in 1..Len(trace'[w]) : trace'[w][i] # "compute_in_background"
                          \/ trace'[w] = trace[w]]_vars

\* A WebImage has been added a second time: two computations were scheduled
\* for it and it waits on the token of the second, while the other WebImage
\* still holds the empty token.
C28_Witness ==
    /\ wcall.widget = "img1"
    /\ wcall.method = "lifecycle"
    /\ wcall.arg = "WidgetAdded"
    /\ web["img1"].image_promise = 2
    /\ web["img2"].image_promise = EmptyToken
    /\ Cardinality(jobs) = 2

\* ------------------------------------------------------------------------
\* Properties of the animation of the Spinner
\* ------------------------------------------------------------------------

\* C29: the animation keeps itself going. LifeCycle::WidgetAdded makes the
\* Spinner request an animation frame and a paint; every AnimFrame event
\* makes it request the next animation frame and a paint; another lifecycle
\* event issues no request, and an event other than AnimFrame issues no
\* request and leaves t as it is.
C29_AnimationKeepsGoing ==
    [][wcall'.widget = TheSpinner =>
          /\ (wcall'.method = "lifecycle" /\ wcall'.arg = "WidgetAdded") =>
                 trace'[TheSpinner] = <<"init", "request_anim_frame", "request_paint">>
          /\ (wcall'.method = "lifecycle" /\ wcall'.arg # "WidgetAdded") =>
                 (trace'[TheSpinner] = <<"init">> /\ spinner' = spinner)
          /\ (wcall'.method = "on_event" /\ wcall'.arg.kind = "AnimFrame") =>
                 trace'[TheSpinner] = <<"init", "request_anim_frame", "request_paint">>
          /\ (wcall'.method = "on_event" /\ wcall'.arg.kind # "AnimFrame") =>
                 (trace'[TheSpinner] = <<"init">> /\ spinner' = spinner)]_vars

\* The Spinner has handled a frame that made its phase start over, and
\* asked for the next frame.
C29_Witness ==
    /\ wcall.widget = TheSpinner
    /\ wcall.method = "on_event"
    /\ wcall.arg.kind = "AnimFrame"
    /\ wcall.arg.interval = 6
    /\ spinner.t = 0
    /\ trace[TheSpinner] = <<"init", "request_anim_frame", "request_paint">>

\* C30: the phase stays in range. t is 0 at the start and 0 <= t < 1 in
\* every state; an AnimFrame(interval) with a non-negative interval adds
\* the interval to t and, when the sum is 1 or more, sets t to exactly 0,
\* whatever the sum exceeds 1 by.
C30_PhaseInRange ==
    /\ [](0 <= spinner.t /\ spinner.t < ONE)
    /\ [][(wcall'.widget = TheSpinner /\ wcall'.method = "on_event"
              /\ wcall'.arg.kind = "AnimFrame") =>
             /\ wcall'.arg.interval >= 0
             /\ spinner'.t = IF spinner.t + wcall'.arg.interval >= ONE
                             THEN 0
                             ELSE spinner.t + wcall'.arg.interval
             /\ spinner'.color = spinner.color]_vars

\* A frame of one quarter has set the phase to 0: the phase before was
\* three quarters and the sum exactly 1.
C30_Witness ==
    /\ wcall.widget = TheSpinner
    /\ wcall.method = "on_event"
    /\ wcall.arg.kind = "AnimFrame"
    /\ wcall.arg.interval = 1
    /\ spinner.t = 0

\* ------------------------------------------------------------------------
\* Properties of the invalid region across renders
\* ------------------------------------------------------------------------

C31_PartHanded ==
    /\ hpc = "render_exit"
    /\ piet.region = "PART"
    /\ invalid = "EMPTY"

====
